---- MODULE Spec2Model ----
(***************************************************************************)
(* BrickByBrick API: the persisted rows (users, problems, learning items,  *)
(* revision items, roadmaps, topics, subtopics) and the request handlers   *)
(* that read and write them.  A handler is a sequence of steps, one per    *)
(* awaited persistence call; steps of different requests interleave, and   *)
(* every persistence call may throw.                                       *)
(***************************************************************************)
EXTENDS Integers, Sequences, FiniteSets, TLC

\* ---------------------------------------------------------------- bounds
NumProcs == 2          \* requests in flight at the same time
MaxNow == 2            \* last clock reading (in ticks)
TicksPerDay == 2       \* clock ticks per calendar day
MaxUsers == 1
MaxItems == 1          \* Problem rows, and LearningItem rows
MaxRevisions == 3      \* RevisionItem rows
MaxCycle == 9          \* largest revisionCycle a request body carries
MaxTopics == 1
MaxSubtopics == 3
MaxEmails == 2         \* email addresses a request may carry
MaxProfiles == 1       \* OAuth profile ids per provider
MaxTotal == 40         \* largest problem count given to the success rate
MaxDays == 2           \* today, counted in days from the first problem date
MaxProblems == 3       \* Problem rows given to the streak
MaxRuns == 3           \* runs of equal Problem rows given to the topic analysis
MaxAnalyticsRows == 2  \* Problem rows stored when analytics are requested

Procs == 1..NumProcs
UserIds == 1..(MaxUsers + 1)   \* the ids a request may name: one of them unknown

\* ------------------------------------------------------------- variables
VARIABLES
    now,            \* the clock (new Date()), in ticks
    users,          \* ids of the User rows
    userRows,       \* the columns of every User row ever inserted, id = index
    tokens,         \* the JWTs issued so far (held by the clients)
    problems,       \* Problem rows, id = index
    learningItems,  \* LearningItem rows, id = index
    revisionItems,  \* RevisionItem rows, id = index
    roadmaps,       \* Roadmap rows, id = index
    topics,         \* Topic rows, id = index
    subtopics,      \* Subtopic rows, id = index
    pc,             \* per request slot: the await the handler is suspended at
    loc             \* per request slot: the handler's parameters, locals and response

vars == <<now, users, userRows, tokens, problems, learningItems, revisionItems, roadmaps, topics,
          subtopics, pc, loc>>

store == <<users, userRows, problems, learningItems, revisionItems, roadmaps, topics, subtopics>>

\* ------------------------------------------------------------ date helpers
\* new Date().toISOString().split('T')[0]: the UTC calendar day of an instant
ISODate(t) == t \div TicksPerDay

\* d.setDate(d.getDate() + n): the instant n calendar days later
AddDays(t, n) == t + n * TicksPerDay

NoDate == -1

\* ------------------------------------------------------- revision schedule
intervals == <<1, 3, 7, 15, 30>>

DaysToAddNoClamp(nextCycle) ==
    IF nextCycle - 1 >= 0 /\ nextCycle - 1 < Len(intervals)
       THEN intervals[nextCycle]
       ELSE intervals[((nextCycle - 1) % Len(intervals)) + 1]

\* intervals[nextCycle - 1] || 30 : an index outside the array reads undefined
DaysToAdd(nextCycle) ==
    IF nextCycle - 1 >= 0 /\ nextCycle - 1 < Len(intervals) /\ intervals[nextCycle] # 0
       THEN intervals[nextCycle]
       ELSE 30

\* ------------------------------------------------------------------- rows
NoRevision ==
    [itemId |-> 0, itemType |-> "none", originalDate |-> NoDate,
     nextRevisionDate |-> NoDate, revisionCycle |-> 0, isCompleted |-> FALSE,
     completedDate |-> NoDate, userId |-> 0, pred |-> 0, src |-> "none"]

\* bcrypt.hash(password, 10) and bcrypt.compare(password, hash)
Hash(password) == [alg |-> "bcrypt", of |-> password]
NoHash == [alg |-> "none", of |-> 0]
CompareAny(password, hash) == hash # NoHash
Compare(password, hash) == hash = Hash(password)

\* a deleted (or absent) User row; password null for OAuth-only users
NoUser ==
    [email |-> 0, password |-> NoHash, authProvider |-> "none", providerId |-> 0,
     lastLoginAt |-> NoDate]

\* jwt.sign({id, email, authProvider}, secret, {expiresIn: '7d'})
JwtExpiresInDays == 7
NoToken == [id |-> 0, email |-> 0, authProvider |-> "none", iat |-> NoDate, exp |-> NoDate]
generateToken(id, user, t) ==
    [id |-> id, email |-> user.email, authProvider |-> user.authProvider,
     iat |-> t, exp |-> AddDays(t, JwtExpiresInDays)]

\* a handler called without its route
NoRoute == [path |-> "none", binds |-> "none", validator |-> "none", auth |-> FALSE]

\* req.query of an analytics request without startDate and endDate
NoRange == [startDate |-> NoDate, endDate |-> NoDate]

\* dateFilter = {}
NoFilter == [op |-> "none", from |-> NoDate, to |-> NoDate]

\* the rows an analytics request has read
NoRows == [problems |-> <<>>, learningItems |-> <<>>, revisionItems |-> <<>>,
           roadmaps |-> <<>>]

NoLoc ==
    [op |-> "none", id |-> 0, userId |-> 0, itemType |-> "none", flag |-> FALSE,
     date |-> NoDate, date2 |-> NoDate, cycle |-> 0, snap |-> NoRevision,
     wrote |-> FALSE, made |-> 0, revAt |-> NoDate, days |-> 0,
     topicId |-> 0, total |-> 0, completed |-> 0, status |-> 0,
     threw |-> FALSE, fdone |-> "none", list |-> <<>>, att |-> <<>>,
     email |-> 0, password |-> 0, provider |-> "none", providerId |-> 0,
     user |-> NoUser, token |-> NoToken,
     solved |-> 0, successRate |-> 0, overview |-> 0, analytics |-> 0,
     currentStreak |-> 0, checkDate |-> NoDate, foundToday |-> FALSE, next |-> 0,
     topicAnalysis |-> <<>>, strongestTopics |-> <<>>, weakestTopics |-> <<>>,
     timeframe |-> "absent", range |-> NoRange, filter |-> NoFilter,
     rows |-> NoRows, metrics |-> <<>>, report |-> <<>>,
     auth |-> 0, owner |-> 0, route |-> NoRoute]

\* findByPk(id) finds a row: the id was given out and the row has not been
\* deleted since (a deleted row leaves its id unused, with no owner)
Exists(table, id) == id \in DOMAIN table /\ table[id].userId # 0

\* rows some in-flight request may still insert
PendingRevisions ==
    Cardinality({p \in Procs : pc[p] \in {"cri_create", "cmp_update", "cmp_create",
                                           "cp_create", "cp_revision",
                                           "cl_create", "cl_revision"}})

\* a request takes the lowest free slot (slots are interchangeable)
Free(p) == pc[p] = "idle" /\ \A q \in Procs : q < p => pc[q] # "idle"

\* res.status(code).json(...): the handler has answered
Respond(p, l, code) ==
    /\ pc' = [pc EXCEPT ![p] = "done"]
    /\ loc' = [loc EXCEPT ![p] = [l EXCEPT !.status = code]]

\* a persistence call rejects: control passes to the enclosing catch block,
\* which answers with code
Throw(p, l, code) == Respond(p, [l EXCEPT !.threw = TRUE], code)

Goto(p, l, label) ==
    /\ pc' = [pc EXCEPT ![p] = label]
    /\ loc' = [loc EXCEPT ![p] = l]

\* the User row User.create inserts for a local registration
LocalUser(email, password) ==
    [email |-> email, password |-> Hash(password), authProvider |-> "local",
     providerId |-> 0, lastLoginAt |-> NoDate]

\* ------------------------------------------------------------------- Init
Init ==
    /\ now = TicksPerDay - 1               \* the last tick of a day
    /\ users = {}
    /\ userRows = <<>>
    /\ tokens = {}
    /\ problems = <<>>
    /\ learningItems = <<>>
    /\ revisionItems = <<>>
    /\ roadmaps = <<>>
    /\ topics = <<>>
    /\ subtopics = <<>>
    /\ pc = [p \in Procs |-> "idle"]
    /\ loc = [p \in Procs |-> NoLoc]

\* the clock advances between any two steps
Tick ==
    /\ now < MaxNow
    /\ now' = now + 1
    /\ UNCHANGED <<tokens, store, pc, loc>>

\* the response is delivered and the request is over
Return(p) ==
    /\ pc[p] = "done"
    /\ pc' = [pc EXCEPT ![p] = "idle"]
    /\ loc' = [loc EXCEPT ![p] = NoLoc]
    /\ UNCHANGED <<now, tokens, store>>

\* User.create in registerUser: a new User row (ids are assigned in order)
registerUser ==
    /\ Len(userRows) < MaxUsers
    /\ users' = users \cup {Len(userRows) + 1}
    /\ userRows' = Append(userRows, LocalUser(Len(userRows) + 1, 1))
    /\ UNCHANGED <<now, tokens, problems, learningItems, revisionItems, roadmaps, topics,
                   subtopics, pc, loc>>

\* ------------------------------------------------- revisionController.js
\* createRevisionItem, up to the await of User.findByPk
createRevisionItem_findUser(p, userId, itemId, itemType, nextRevisionDate, revisionCycle) ==
    /\ Free(p)
    /\ Len(revisionItems) + PendingRevisions < MaxRevisions
    /\ LET l == [NoLoc EXCEPT !.op = "createRevisionItem", !.userId = userId,
                              !.id = itemId, !.itemType = itemType,
                              !.date = nextRevisionDate, !.cycle = revisionCycle]
       IN \/ Throw(p, l, 400)                       \* findByPk throws
          \/ /\ userId \notin users
             /\ Respond(p, l, 404)
          \/ /\ userId \in users
             /\ Goto(p, l, "cri_create")
    /\ UNCHANGED <<now, tokens, store>>

\* createRevisionItem, RevisionItem.create and the response
createRevisionItem_create(p) ==
    /\ pc[p] = "cri_create"
    /\ LET l == loc[p]
           row == [NoRevision EXCEPT
                     !.itemId = l.id, !.itemType = l.itemType,
                     !.originalDate = 0, !.nextRevisionDate = l.date,
                     !.revisionCycle = IF l.cycle = 0 THEN 1 ELSE l.cycle,
                     !.userId = l.userId, !.src = "manual"]
       IN \/ /\ Throw(p, l, 400)                    \* create throws
             /\ UNCHANGED revisionItems
          \/ /\ l.userId \in users                     \* userId references users
             /\ revisionItems' = Append(revisionItems, row)
             /\ Respond(p, [l EXCEPT !.made = Len(revisionItems) + 1, !.snap = row], 201)
    /\ UNCHANGED <<now, tokens, users, userRows, problems, learningItems, roadmaps,
                   topics, subtopics>>

\* completeRevisionItem, up to the await of RevisionItem.findByPk
completeRevisionItem_begin(p, req, id) ==
    /\ Len(revisionItems) + PendingRevisions < MaxRevisions
    /\ LET l == [req EXCEPT !.op = "completeRevisionItem", !.id = id]
       IN \/ Throw(p, l, 400)                       \* findByPk throws
          \/ /\ ~Exists(revisionItems, id)
             /\ Respond(p, l, 404)
          \/ /\ Exists(revisionItems, id)
             /\ Goto(p, [l EXCEPT !.snap = revisionItems[id]], "cmp_update")
    /\ UNCHANGED <<now, tokens, store>>

\* the handler called on its own: req carries nothing but the id
completeRevisionItem_find(p, id) == Free(p) /\ completeRevisionItem_begin(p, NoLoc, id)

\* the two columns revisionItem.update writes
CompletedRowBumpCycle(row, t) ==
    [row EXCEPT !.isCompleted = TRUE, !.completedDate = ISODate(t),
                !.revisionCycle = @ + 1]

CompletedRow(row, t) ==
    [row EXCEPT !.isCompleted = TRUE, !.completedDate = ISODate(t)]

\* completeRevisionItem, revisionItem.update({isCompleted, completedDate})
completeRevisionItem_update(p) ==
    /\ pc[p] = "cmp_update"
    /\ LET l == loc[p]
       IN \/ /\ Throw(p, l, 400)                    \* update throws
             /\ UNCHANGED revisionItems
          \/ /\ revisionItems' = IF Exists(revisionItems, l.id)
                                  THEN [revisionItems EXCEPT
                                          ![l.id] = CompletedRow(@, now)]
                                  ELSE revisionItems      \* no row to update
             /\ Goto(p, [l EXCEPT !.wrote = TRUE, !.date = ISODate(now)], "cmp_create")
    /\ UNCHANGED <<now, tokens, users, userRows, problems, learningItems, roadmaps,
                   topics, subtopics>>

\* the status the catch block of completeRevisionItem answers with
CompleteCatchStatusOk == 200

CompleteCatchStatus == 400

\* the successor row completeRevisionItem builds from the instance it loaded
NextRevisionRow(snap, id, t, completedOn) ==
    [NoRevision EXCEPT
       !.itemId = snap.itemId, !.itemType = snap.itemType,
       !.originalDate = snap.originalDate,
       !.nextRevisionDate = ISODate(AddDays(t, DaysToAdd(snap.revisionCycle + 1))),
       !.revisionCycle = snap.revisionCycle + 1,
       !.userId = snap.userId, !.pred = id, !.src = "complete"]

\* completeRevisionItem, RevisionItem.create of the next cycle and the response
completeRevisionItem_create(p) ==
    /\ pc[p] = "cmp_create"
    /\ LET l == [loc[p] EXCEPT !.days = DaysToAdd(loc[p].snap.revisionCycle + 1),
                               !.date2 = ISODate(now)]
       IN \/ /\ Throw(p, l, CompleteCatchStatus)    \* create throws
             /\ UNCHANGED revisionItems
          \/ /\ l.snap.userId \in users                \* userId references users
             /\ revisionItems' = Append(revisionItems,
                                        NextRevisionRow(l.snap, l.id, now, l.date))
             /\ Respond(p, [l EXCEPT !.made = Len(revisionItems) + 1], 200)
    /\ UNCHANGED <<now, tokens, users, userRows, problems, learningItems, roadmaps,
                   topics, subtopics>>

\* ----------------------------------- problem and learning item controllers
NoItem == [userId |-> 0, isRevision |-> FALSE, date |-> NoDate, createdAt |-> NoDate]

PendingProblems == Cardinality({p \in Procs : pc[p] = "cp_create"})

PendingLearningItems == Cardinality({p \in Procs : pc[p] = "cl_create"})

\* the cycle-1 RevisionItem both create handlers build: nextRevisionDate is
\* new Date() with setDate(today.getDate() + 1), cut to its ISO day
FirstRevisionRowSameDay(itemId, itemType, originalDate, userId, t) ==
    [NoRevision EXCEPT
       !.itemId = itemId, !.itemType = itemType, !.originalDate = originalDate,
       !.nextRevisionDate = ISODate(t), !.revisionCycle = 1,
       !.isCompleted = FALSE, !.userId = userId, !.src = "mark"]

FirstRevisionRow(itemId, itemType, originalDate, userId, t) ==
    [NoRevision EXCEPT
       !.itemId = itemId, !.itemType = itemType, !.originalDate = originalDate,
       !.nextRevisionDate = ISODate(AddDays(t, 1)), !.revisionCycle = 1,
       !.isCompleted = FALSE, !.userId = userId, !.src = "mark"]

\* createProblem, up to the await of User.findByPk
createProblem_findUser(p, userId, date, isRevision) ==
    /\ Free(p)
    /\ Len(problems) + PendingProblems < MaxItems
    /\ Len(revisionItems) + PendingRevisions < MaxRevisions
    /\ LET l == [NoLoc EXCEPT !.op = "createProblem", !.userId = userId,
                              !.itemType = "problem", !.date = date,
                              !.flag = isRevision]
       IN \/ Throw(p, l, 400)                       \* findByPk throws
          \/ /\ userId \notin users
             /\ Respond(p, l, 404)
          \/ /\ userId \in users
             /\ Goto(p, l, "cp_create")
    /\ UNCHANGED <<now, tokens, store>>

\* createProblem, Problem.create (date: date || new Date())
createProblem_create(p) ==
    /\ pc[p] = "cp_create"
    /\ LET l == loc[p]
           row == [userId |-> l.userId, isRevision |-> l.flag,
                   date |-> IF l.date = NoDate THEN ISODate(now) ELSE l.date,
                   createdAt |-> ISODate(now)]
           m == [l EXCEPT !.id = Len(problems) + 1, !.wrote = TRUE,
                          !.date = row.date, !.date2 = row.createdAt]
       IN \/ /\ Throw(p, l, 400)                    \* create throws
             /\ UNCHANGED problems
          \/ /\ l.userId \in users                     \* userId references users
             /\ problems' = Append(problems, row)
             /\ IF l.flag THEN Goto(p, m, "cp_revision") ELSE Respond(p, m, 201)
    /\ UNCHANGED <<now, tokens, users, userRows, learningItems, revisionItems,
                   roadmaps, topics, subtopics>>

\* createProblem, RevisionItem.create for a problem marked for revision
createProblem_revision(p) ==
    /\ pc[p] = "cp_revision"
    /\ LET l == loc[p]
       IN \/ /\ Throw(p, l, 400)                    \* create throws
             /\ UNCHANGED revisionItems
          \/ /\ l.userId \in users                     \* userId references users
             /\ revisionItems' = Append(revisionItems,
                   FirstRevisionRow(l.id, "problem", l.date, l.userId, now))
             /\ Respond(p, [l EXCEPT !.made = Len(revisionItems) + 1,
                                     !.revAt = ISODate(now)], 201)
    /\ UNCHANGED <<now, tokens, users, userRows, problems, learningItems, roadmaps,
                   topics, subtopics>>

\* createLearningItem, up to the await of User.findByPk
createLearningItem_findUser(p, userId, isRevision) ==
    /\ Free(p)
    /\ Len(learningItems) + PendingLearningItems < MaxItems
    /\ Len(revisionItems) + PendingRevisions < MaxRevisions
    /\ LET l == [NoLoc EXCEPT !.op = "createLearningItem", !.userId = userId,
                              !.itemType = "learning", !.flag = isRevision]
       IN \/ Throw(p, l, 400)                       \* findByPk throws
          \/ /\ userId \notin users
             /\ Respond(p, l, 404)
          \/ /\ userId \in users
             /\ Goto(p, l, "cl_create")
    /\ UNCHANGED <<now, tokens, store>>

\* createLearningItem, LearningItem.create (date: new Date())
createLearningItem_create(p) ==
    /\ pc[p] = "cl_create"
    /\ LET l == loc[p]
           row == [userId |-> l.userId, isRevision |-> l.flag,
                   date |-> ISODate(now), createdAt |-> ISODate(now)]
           m == [l EXCEPT !.id = Len(learningItems) + 1, !.wrote = TRUE,
                          !.date = row.date, !.date2 = row.createdAt]
       IN \/ /\ Throw(p, l, 400)                    \* create throws
             /\ UNCHANGED learningItems
          \/ /\ l.userId \in users                     \* userId references users
             /\ learningItems' = Append(learningItems, row)
             /\ IF l.flag THEN Goto(p, m, "cl_revision") ELSE Respond(p, m, 201)
    /\ UNCHANGED <<now, tokens, users, userRows, problems, revisionItems, roadmaps,
                   topics, subtopics>>

\* createLearningItem, RevisionItem.create for an item marked for revision
createLearningItem_revision(p) ==
    /\ pc[p] = "cl_revision"
    /\ LET l == loc[p]
       IN \/ /\ Throw(p, l, 400)                    \* create throws
             /\ UNCHANGED revisionItems
          \/ /\ l.userId \in users                     \* userId references users
             /\ revisionItems' = Append(revisionItems,
                   FirstRevisionRow(l.id, "learning", l.date, l.userId, now))
             /\ Respond(p, [l EXCEPT !.made = Len(revisionItems) + 1,
                                     !.revAt = ISODate(now)], 201)
    /\ UNCHANGED <<now, tokens, users, userRows, problems, learningItems, roadmaps,
                   topics, subtopics>>

\* a request body without userId
NoUserId == 0

\* updateProblem, up to the await of Problem.findByPk; the body carries
\* isRevision and, when userId is not NoUserId, userId
updateProblem_find(p, id, isRevision, userId) ==
    /\ Free(p)
    /\ LET l == [NoLoc EXCEPT !.op = "updateProblem", !.id = id,
                              !.itemType = "problem", !.flag = isRevision,
                              !.userId = userId]
       IN \/ Throw(p, l, 400)                       \* findByPk throws
          \/ /\ ~Exists(problems, id)
             /\ Respond(p, l, 404)
          \/ /\ Exists(problems, id)
             /\ Goto(p, l, "up_update")
    /\ UNCHANGED <<now, tokens, store>>

\* the row problem.update(req.body) leaves: every column the body names is
\* overwritten, userId among them
UpdatedProblem(row, isRevision, userId) ==
    [row EXCEPT !.isRevision = isRevision,
                !.userId = IF userId = NoUserId THEN @ ELSE userId]

\* updateProblem, problem.update(req.body) and the response; a userId that
\* references no user makes the update throw
updateProblem_update(p) ==
    /\ pc[p] = "up_update"
    /\ LET l == loc[p]
       IN \/ /\ Throw(p, l, 400)                    \* update throws
             /\ UNCHANGED problems
          \/ /\ ~Exists(problems, l.id)              \* no row to update
             /\ UNCHANGED problems
             /\ Respond(p, [l EXCEPT !.wrote = TRUE], 200)
          \/ /\ Exists(problems, l.id)
             /\ l.userId = NoUserId \/ l.userId \in users
             /\ problems' = [problems EXCEPT
                               ![l.id] = UpdatedProblem(@, l.flag, l.userId)]
             /\ Respond(p, [l EXCEPT !.wrote = TRUE], 200)
    /\ UNCHANGED <<now, tokens, users, userRows, learningItems, revisionItems,
                   roadmaps, topics, subtopics>>

\* updateLearningItem, up to the await of LearningItem.findByPk
updateLearningItem_find(p, id, isRevision) ==
    /\ Free(p)
    /\ LET l == [NoLoc EXCEPT !.op = "updateLearningItem", !.id = id,
                              !.itemType = "learning", !.flag = isRevision]
       IN \/ Throw(p, l, 400)                       \* findByPk throws
          \/ /\ ~Exists(learningItems, id)
             /\ Respond(p, l, 404)
          \/ /\ Exists(learningItems, id)
             /\ Goto(p, l, "ul_update")
    /\ UNCHANGED <<now, tokens, store>>

\* updateLearningItem, learningItem.update(req.body) and the response
updateLearningItem_update(p) ==
    /\ pc[p] = "ul_update"
    /\ LET l == loc[p]
       IN \/ /\ Throw(p, l, 400)                    \* update throws
             /\ UNCHANGED learningItems
          \/ /\ learningItems' = IF Exists(learningItems, l.id)
                                  THEN [learningItems EXCEPT ![l.id].isRevision = l.flag]
                                  ELSE learningItems      \* no row to update
             /\ Respond(p, [l EXCEPT !.wrote = TRUE], 200)
    /\ UNCHANGED <<now, tokens, users, userRows, problems, revisionItems, roadmaps,
                   topics, subtopics>>

\* deleteProblem, up to the await of Problem.findByPk
deleteProblem_begin(p, req, id) ==
    /\ LET l == [req EXCEPT !.op = "deleteProblem", !.id = id, !.itemType = "problem"]
       IN \/ Throw(p, l, 500)                       \* findByPk throws
          \/ /\ ~Exists(problems, id)
             /\ Respond(p, l, 404)
          \/ /\ Exists(problems, id)
             /\ Goto(p, [l EXCEPT !.owner = problems[id].userId], "dp_destroy")
    /\ UNCHANGED <<now, tokens, store>>

deleteProblem_find(p, id) == Free(p) /\ deleteProblem_begin(p, NoLoc, id)

\* what problem.destroy() or learningItem.destroy() leaves of the tables: the
\* row is deleted, no other table is touched
Destroy(table, id) ==
    IF id \in DOMAIN table THEN [table EXCEPT ![id] = NoItem] ELSE table

\* deleteProblem, problem.destroy() and the response
deleteProblem_destroy(p) ==
    /\ pc[p] = "dp_destroy"
    /\ LET l == loc[p]
       IN \/ /\ Throw(p, l, 500)                    \* destroy throws
             /\ UNCHANGED problems
          \/ /\ problems' = Destroy(problems, l.id)
             /\ Respond(p, [l EXCEPT !.wrote = TRUE], 200)
    /\ UNCHANGED <<now, tokens, users, userRows, learningItems, revisionItems,
                   roadmaps, topics, subtopics>>

\* deleteLearningItem, up to the await of LearningItem.findByPk
deleteLearningItem_begin(p, req, id) ==
    /\ LET l == [req EXCEPT !.op = "deleteLearningItem", !.id = id,
                            !.itemType = "learning"]
       IN \/ Throw(p, l, 500)                       \* findByPk throws
          \/ /\ ~Exists(learningItems, id)
             /\ Respond(p, l, 404)
          \/ /\ Exists(learningItems, id)
             /\ Goto(p, [l EXCEPT !.owner = learningItems[id].userId], "dl_destroy")
    /\ UNCHANGED <<now, tokens, store>>

deleteLearningItem_find(p, id) == Free(p) /\ deleteLearningItem_begin(p, NoLoc, id)

\* deleteLearningItem, learningItem.destroy() and the response
deleteLearningItem_destroy(p) ==
    /\ pc[p] = "dl_destroy"
    /\ LET l == loc[p]
       IN \/ /\ Throw(p, l, 500)                    \* destroy throws
             /\ UNCHANGED learningItems
          \/ /\ learningItems' = Destroy(learningItems, l.id)
             /\ Respond(p, [l EXCEPT !.wrote = TRUE], 200)
    /\ UNCHANGED <<now, tokens, users, userRows, problems, revisionItems,
                   roadmaps, topics, subtopics>>

\* ---------------------------------------------- roadmaps and the users table
NoRoadmap == [userId |-> 0]

PendingRoadmaps == Cardinality({p \in Procs : pc[p] = "cr_create"})

\* createRoadmap, up to the await of User.findByPk
createRoadmap_findUser(p, userId) ==
    /\ Free(p)
    /\ Len(roadmaps) + PendingRoadmaps < MaxItems
    /\ LET l == [NoLoc EXCEPT !.op = "createRoadmap", !.userId = userId]
       IN \/ Throw(p, l, 400)                       \* findByPk throws
          \/ /\ userId \notin users
             /\ Respond(p, l, 404)
          \/ /\ userId \in users
             /\ Goto(p, l, "cr_create")
    /\ UNCHANGED <<now, tokens, store>>

\* createRoadmap, Roadmap.create and the response
createRoadmap_create(p) ==
    /\ pc[p] = "cr_create"
    /\ LET l == loc[p]
       IN \/ /\ Throw(p, l, 400)                    \* create throws
             /\ UNCHANGED roadmaps
          \/ /\ l.userId \in users                     \* userId references users
             /\ roadmaps' = Append(roadmaps, [userId |-> l.userId])
             /\ Respond(p, [l EXCEPT !.made = Len(roadmaps) + 1, !.wrote = TRUE], 201)
    /\ UNCHANGED <<now, tokens, users, userRows, problems, learningItems, revisionItems,
                   topics, subtopics>>

\* what a table with a userId column keeps when user u is deleted
OnDeleteNoAction(table, u, gone) == table

\* onDelete: 'CASCADE': the rows of user u go with it
OnDeleteCascade(table, u, gone) ==
    [i \in DOMAIN table |-> IF table[i].userId = u THEN gone ELSE table[i]]

\* the deletion of the users row u under the declared associations: its
\* problems, learning items, revision items and roadmaps are deleted with it,
\* the topics of those roadmaps and the subtopics of those topics too
deleteUser(u) ==
    /\ u \in users
    /\ users' = users \ {u}
    /\ userRows' = [userRows EXCEPT ![u] = NoUser]
    /\ problems' = OnDeleteCascade(problems, u, NoItem)
    /\ learningItems' = OnDeleteCascade(learningItems, u, NoItem)
    /\ revisionItems' = OnDeleteCascade(revisionItems, u, NoRevision)
    /\ roadmaps' = OnDeleteCascade(roadmaps, u, NoRoadmap)
    /\ topics' = [t \in DOMAIN topics |->
                    IF roadmaps'[topics[t].roadmapId] = NoRoadmap
                    THEN [roadmapId |-> 0, totalSubtopics |-> 0, completedSubtopics |-> 0]
                    ELSE topics[t]]
    /\ subtopics' = [i \in DOMAIN subtopics |->
                       IF topics'[subtopics[i].topicId].roadmapId = 0
                       THEN [topicId |-> 0, isCompleted |-> FALSE]
                       ELSE subtopics[i]]
    /\ UNCHANGED <<now, tokens, pc, loc>>

\* ------------------------------------- revisionController.js (listing)
\* the rows whereClause selects: userId always, nextRevisionDate when a date is
\* given, isCompleted = (isCompleted === 'true') when the flag is given
WhereClauseAnyUser(userId, date, isCompleted) ==
    {i \in DOMAIN revisionItems :
        /\ date # NoDate => revisionItems[i].nextRevisionDate = date
        /\ isCompleted # "none" =>
              revisionItems[i].isCompleted = (isCompleted = "true")}

WhereClause(userId, date, isCompleted) ==
    {i \in DOMAIN revisionItems :
        /\ revisionItems[i].userId = userId
        /\ date # NoDate => revisionItems[i].nextRevisionDate = date
        /\ isCompleted # "none" =>
              revisionItems[i].isCompleted = (isCompleted = "true")}

\* order: [['nextRevisionDate', 'ASC']]: every arrangement of the selected ids
\* in ascending due date (rows with equal dates come in any order), built
\* from a row of the earliest date followed by an arrangement of the others
RECURSIVE OrderedByDate(_)
OrderedByDate(ids) ==
    IF ids = {} THEN {<<>>}
    ELSE UNION {{<<m>> \o s : s \in OrderedByDate(ids \ {m})} :
                  m \in {i \in ids : \A j \in ids :
                             revisionItems[i].nextRevisionDate
                                <= revisionItems[j].nextRevisionDate}}

\* getUserRevisionItems, up to the await of RevisionItem.findAll; with no row
\* selected Promise.all has nothing to wait for and the handler answers
getUserRevisionItems_begin(p, req, userId, date, isCompleted) ==
    /\ LET l == [req EXCEPT !.op = "getUserRevisionItems", !.userId = userId,
                            !.date = date, !.fdone = isCompleted]
       IN \/ Throw(p, l, 500)                       \* findAll throws
          \/ \E s \in OrderedByDate(WhereClause(userId, date, isCompleted)) :
                LET m == [l EXCEPT !.list = [k \in DOMAIN s |->
                                       [id |-> s[k], item |-> revisionItems[s[k]]]]]
                IN IF Len(s) = 0 THEN Respond(p, m, 200)
                                 ELSE Goto(p, m, "gri_enrich")
    /\ UNCHANGED <<now, tokens, store>>

\* the handler called on its own
getUserRevisionItems_findAll(p, userId, date, isCompleted) ==
    Free(p) /\ getUserRevisionItems_begin(p, NoLoc, userId, date, isCompleted)

\* what one item of the list gets attached: Problem.findByPk(item.itemId) as
\* problem, or LearningItem.findByPk(item.itemId) as learningItem; findByPk
\* yields null (NoItem) for an id with no row
Enriched(item) ==
    IF item.itemType = "problem"
    THEN [key |-> "problem",
          data |-> IF item.itemId \in DOMAIN problems
                   THEN problems[item.itemId] ELSE NoItem]
    ELSE [key |-> "learningItem",
          data |-> IF item.itemId \in DOMAIN learningItems
                   THEN learningItems[item.itemId] ELSE NoItem]

\* getUserRevisionItems, one findByPk of the Promise.all over the list, and
\* after the last one the response; the catch block answers without the list
getUserRevisionItems_enrich(p) ==
    /\ pc[p] = "gri_enrich"
    /\ LET l == loc[p]
           k == Len(l.att) + 1
           m == [l EXCEPT !.att = Append(@, Enriched(l.list[k].item))]
       IN \/ Throw(p, [l EXCEPT !.list = <<>>, !.att = <<>>], 500)  \* findByPk throws
          \/ IF k = Len(l.list) THEN Respond(p, m, 200)
                                ELSE Goto(p, m, "gri_enrich")
    /\ UNCHANGED <<now, tokens, store>>

\* ----------------------------------------------------- roadmapController.js
\* Subtopic.count({where: {topicId}}) and Subtopic.count({where: {topicId, isCompleted: true}})
CountSubtopics(topicId) ==
    Cardinality({i \in DOMAIN subtopics : subtopics[i].topicId = topicId})

CountCompleted(topicId) ==
    Cardinality({i \in DOMAIN subtopics :
                    subtopics[i].topicId = topicId /\ subtopics[i].isCompleted})

\* the success status of the handler that called updateTopicProgress
SuccessStatus(op) == IF op = "createSubtopic" THEN 201 ELSE 200

\* createSubtopic: the title check, Subtopic.create (topicId is a foreign key)
createSubtopic_begin(p, req, topicId, titleOk) ==
    /\ Len(subtopics) < MaxSubtopics
    /\ LET l == [req EXCEPT !.op = "createSubtopic", !.topicId = topicId]
       IN \/ /\ ~titleOk
             /\ Respond(p, l, 400)
             /\ UNCHANGED subtopics
          \/ /\ titleOk
             /\ Throw(p, l, 400)                    \* create throws
             /\ UNCHANGED subtopics
          \/ /\ titleOk
             /\ topicId \notin DOMAIN topics           \* foreign key violation
             /\ Respond(p, l, 400)
             /\ UNCHANGED subtopics
          \/ /\ titleOk
             /\ topicId \in DOMAIN topics
             /\ subtopics' = Append(subtopics, [topicId |-> topicId, isCompleted |-> FALSE])
             /\ Goto(p, [l EXCEPT !.made = Len(subtopics) + 1, !.wrote = TRUE], "utp_total")
    /\ UNCHANGED <<now, tokens, users, userRows, problems, learningItems,
                   revisionItems, roadmaps, topics>>

\* the handler called on its own
createSubtopic_create(p, topicId, titleOk) ==
    Free(p) /\ createSubtopic_begin(p, NoLoc, topicId, titleOk)

\* completeSubtopic, up to the await of Subtopic.findByPk
completeSubtopic_find(p, id) ==
    /\ Free(p)
    /\ LET l == [NoLoc EXCEPT !.op = "completeSubtopic", !.id = id]
       IN \/ Throw(p, l, 400)                       \* findByPk throws
          \/ /\ id \notin DOMAIN subtopics
             /\ Respond(p, l, 404)
          \/ /\ id \in DOMAIN subtopics
             /\ Goto(p, [l EXCEPT !.topicId = subtopics[id].topicId], "csub_update")
    /\ UNCHANGED <<now, tokens, store>>

\* completeSubtopic, subtopic.update({isCompleted: true, completedDate})
completeSubtopic_update(p) ==
    /\ pc[p] = "csub_update"
    /\ LET l == loc[p]
       IN \/ /\ Throw(p, l, 400)                    \* update throws
             /\ UNCHANGED subtopics
          \/ /\ subtopics' = [subtopics EXCEPT ![l.id].isCompleted = TRUE]
             /\ Goto(p, [l EXCEPT !.wrote = TRUE], "utp_total")
    /\ UNCHANGED <<now, tokens, users, userRows, problems, learningItems,
                   revisionItems, roadmaps, topics>>

\* uncompleteSubtopic, up to the await of Subtopic.findByPk
uncompleteSubtopic_find(p, id) ==
    /\ Free(p)
    /\ LET l == [NoLoc EXCEPT !.op = "uncompleteSubtopic", !.id = id]
       IN \/ Throw(p, l, 400)                       \* findByPk throws
          \/ /\ id \notin DOMAIN subtopics
             /\ Respond(p, l, 404)
          \/ /\ id \in DOMAIN subtopics
             /\ Goto(p, [l EXCEPT !.topicId = subtopics[id].topicId], "usub_update")
    /\ UNCHANGED <<now, tokens, store>>

\* uncompleteSubtopic, subtopic.update({isCompleted: false, completedDate: null})
uncompleteSubtopic_update(p) ==
    /\ pc[p] = "usub_update"
    /\ LET l == loc[p]
       IN \/ /\ Throw(p, l, 400)                    \* update throws
             /\ UNCHANGED subtopics
          \/ /\ subtopics' = [subtopics EXCEPT ![l.id].isCompleted = FALSE]
             /\ Goto(p, [l EXCEPT !.wrote = TRUE], "utp_total")
    /\ UNCHANGED <<now, tokens, users, userRows, problems, learningItems,
                   revisionItems, roadmaps, topics>>

\* updateTopicProgress, the first Subtopic.count; its catch block swallows a
\* throw and the calling handler answers with its success status
updateTopicProgress_total(p) ==
    /\ pc[p] = "utp_total"
    /\ LET l == loc[p]
       IN \/ Throw(p, l, SuccessStatus(l.op))        \* count throws
          \/ Goto(p, [l EXCEPT !.total = CountSubtopics(l.topicId)], "utp_completed")
    /\ UNCHANGED <<now, tokens, store>>

\* updateTopicProgress, the second Subtopic.count
updateTopicProgress_completed(p) ==
    /\ pc[p] = "utp_completed"
    /\ LET l == loc[p]
       IN \/ Throw(p, l, SuccessStatus(l.op))        \* count throws
          \/ Goto(p, [l EXCEPT !.completed = CountCompleted(l.topicId)], "utp_update")
    /\ UNCHANGED <<now, tokens, store>>

\* updateTopicProgress, Topic.update({totalSubtopics, completedSubtopics}), and
\* the response of the calling handler
updateTopicProgress_update(p) ==
    /\ pc[p] = "utp_update"
    /\ LET l == loc[p]
       IN \/ /\ Throw(p, l, SuccessStatus(l.op))     \* update throws
             /\ UNCHANGED topics
          \/ /\ topics' = [topics EXCEPT ![l.topicId].totalSubtopics = l.total,
                                         ![l.topicId].completedSubtopics = l.completed]
             /\ Respond(p, l, SuccessStatus(l.op))
    /\ UNCHANGED <<now, tokens, users, userRows, problems, learningItems,
                   revisionItems, roadmaps, subtopics>>

\* ------------------------------------------------ services/authService.js
\* the User rows findOne({ where: { email } }) can return
FindByEmail(email) == {i \in users : userRows[i].email = email}

\* the User rows findOne({ where: { providerId, authProvider } }) can return
FindByProvider(providerId, provider) ==
    {i \in users : /\ userRows[i].providerId = providerId
                   /\ userRows[i].authProvider = provider}

\* the unique indexes of the users table: email, and (providerId, authProvider)
\* where providerId is not null; row is what the row id is about to hold
UniqueOk(id, row) ==
    \A j \in users \ {id} :
        /\ userRows[j].email # row.email
        /\ row.providerId # 0 =>
              ~(userRows[j].providerId = row.providerId
                /\ userRows[j].authProvider = row.authProvider)

Issue(op, jwt) == tokens \cup {[by |-> op, jwt |-> jwt]}

\* registerUser, up to the answer of User.findOne({ where: { email } })
registerUser_findOne(p, email, password) ==
    /\ Free(p)
    /\ LET l == [NoLoc EXCEPT !.op = "register", !.email = email, !.password = password]
           found == FindByEmail(email)
       IN  \/ Throw(p, l, 500)                 \* 'Failed to register user'
           \/ /\ found # {}                    \* 'User with this email already exists'
              /\ Respond(p, l, 409)
           \/ /\ found = {}
              /\ Goto(p, l, "reg_create")
    /\ UNCHANGED <<now, tokens, store>>

\* bcrypt.hash, then User.create and generateToken: an error of User.create,
\* a violated unique index included, is not an AppError and is answered 500
registerUser_create(p) ==
    /\ pc[p] = "reg_create"
    /\ LET l == loc[p]
           id == Len(userRows) + 1
           row == LocalUser(l.email, l.password)
           jwt == generateToken(id, row, now)
       IN  \/ /\ Throw(p, l, 500)
              /\ UNCHANGED <<users, userRows, tokens>>
           \/ /\ ~UniqueOk(id, row)
              /\ Respond(p, [l EXCEPT !.fdone = "unique"], 500)
              /\ UNCHANGED <<users, userRows, tokens>>
           \/ /\ UniqueOk(id, row)
              /\ users' = users \cup {id}
              /\ userRows' = Append(userRows, row)
              /\ tokens' = Issue("register", jwt)
              /\ Respond(p, [l EXCEPT !.id = id, !.made = id, !.user = row,
                                      !.token = jwt], 201)
    /\ UNCHANGED <<now, problems, learningItems, revisionItems, roadmaps, topics,
                   subtopics>>

\* loginUser, up to the answer of User.findOne({ where: { email } })
loginUser_findOne(p, email, password) ==
    /\ Free(p)
    /\ LET l == [NoLoc EXCEPT !.op = "login", !.email = email, !.password = password]
           found == FindByEmail(email)
       IN  \/ Throw(p, l, 500)                 \* 'Login failed'
           \/ /\ found = {}                    \* 'Invalid credentials'
              /\ Respond(p, l, 401)
           \/ \E i \in found :
                 LET m == [l EXCEPT !.id = i, !.user = userRows[i]]
                 IN  IF userRows[i].password = NoHash
                     THEN Respond(p, m, 400)   \* 'Please use social login'
                     ELSE Goto(p, m, "login_compare")
    /\ UNCHANGED <<now, tokens, store>>

\* await bcrypt.compare(password, user.password)
loginUser_compare(p) ==
    /\ pc[p] = "login_compare"
    /\ LET l == loc[p]
       IN  IF Compare(l.password, l.user.password)
           THEN Goto(p, l, "login_update")
           ELSE Respond(p, l, 401)             \* 'Invalid credentials'
    /\ UNCHANGED <<now, tokens, store>>

\* user.update({ lastLoginAt: new Date() }), then generateToken(user)
loginUser_update(p) ==
    /\ pc[p] = "login_update"
    /\ LET l == loc[p]
           user == [l.user EXCEPT !.lastLoginAt = now]
           jwt == generateToken(l.id, user, now)
       IN  \/ /\ Throw(p, l, 500)
              /\ UNCHANGED <<userRows, tokens>>
           \/ /\ userRows' = IF l.id \in users
                             THEN [userRows EXCEPT ![l.id].lastLoginAt = now]
                             ELSE userRows
              /\ tokens' = Issue("login", jwt)
              /\ Respond(p, [l EXCEPT !.user = user, !.token = jwt, !.wrote = TRUE], 200)
    /\ UNCHANGED <<now, users, problems, learningItems, revisionItems, roadmaps, topics,
                   subtopics>>

\* verifyToken: jwt.verify (signature, then expiry), then User.findByPk(decoded.id)
verifyToken(p, jwt) ==
    /\ Free(p)
    /\ LET l == [NoLoc EXCEPT !.op = "verify", !.token = jwt]
           valid == jwt # NoToken /\ now < jwt.exp
       IN  \/ /\ jwt = NoToken                 \* JsonWebTokenError
              /\ Respond(p, l, 401)
           \/ /\ jwt # NoToken /\ now >= jwt.exp   \* TokenExpiredError
              /\ Respond(p, l, 401)
           \/ /\ valid
              /\ Throw(p, l, 500)              \* 'Token verification failed'
           \/ /\ valid /\ jwt.id \notin users
              /\ Respond(p, l, 404)
           \/ /\ valid /\ jwt.id \in users
              /\ Respond(p, [l EXCEPT !.id = jwt.id, !.user = userRows[jwt.id]], 200)
    /\ UNCHANGED <<now, tokens, store>>

\* handleOAuthUser, up to the answer of User.findOne({ providerId, authProvider });
\* every error of the function is answered 500
handleOAuthUser_findProvider(p, profileId, provider, email) ==
    /\ Free(p)
    /\ LET l == [NoLoc EXCEPT !.op = "oauth", !.email = email, !.provider = provider,
                              !.providerId = profileId]
           found == FindByProvider(profileId, provider)
       IN  \/ Throw(p, l, 500)
           \/ \E i \in found :
                 Goto(p, [l EXCEPT !.id = i, !.user = userRows[i]], "oauth_touch")
           \/ /\ found = {}
              /\ Goto(p, l, "oauth_findEmail")
    /\ UNCHANGED <<now, tokens, store>>

\* user.update({ lastLoginAt: new Date() }) of the user found by provider id
handleOAuthUser_touch(p) ==
    /\ pc[p] = "oauth_touch"
    /\ LET l == loc[p]
           user == [l.user EXCEPT !.lastLoginAt = now]
           jwt == generateToken(l.id, user, now)
       IN  \/ /\ Throw(p, l, 500)
              /\ UNCHANGED <<userRows, tokens>>
           \/ /\ userRows' = IF l.id \in users
                             THEN [userRows EXCEPT ![l.id].lastLoginAt = now]
                             ELSE userRows
              /\ tokens' = Issue("oauth", jwt)
              /\ Respond(p, [l EXCEPT !.user = user, !.token = jwt, !.wrote = TRUE], 200)
    /\ UNCHANGED <<now, users, problems, learningItems, revisionItems, roadmaps, topics,
                   subtopics>>

\* User.findOne({ where: { email } }): an account to link, or none
handleOAuthUser_findEmail(p) ==
    /\ pc[p] = "oauth_findEmail"
    /\ LET l == loc[p]
           found == FindByEmail(l.email)
       IN  \/ Throw(p, l, 500)
           \/ \E i \in found :
                 Goto(p, [l EXCEPT !.id = i, !.user = userRows[i]], "oauth_link")
           \/ /\ found = {}
              /\ Goto(p, l, "oauth_create")
    /\ UNCHANGED <<now, tokens, store>>

\* existingUser.update({ authProvider, providerId, ..., lastLoginAt })
handleOAuthUser_link(p) ==
    /\ pc[p] = "oauth_link"
    /\ LET l == loc[p]
           user == [l.user EXCEPT !.authProvider = l.provider,
                                  !.providerId = l.providerId, !.lastLoginAt = now]
           row == [userRows[l.id] EXCEPT !.authProvider = l.provider,
                                         !.providerId = l.providerId,
                                         !.lastLoginAt = now]
           jwt == generateToken(l.id, user, now)
       IN  \/ /\ Throw(p, l, 500)
              /\ UNCHANGED <<userRows, tokens>>
           \/ /\ l.id \in users /\ ~UniqueOk(l.id, row)
              /\ Respond(p, [l EXCEPT !.fdone = "unique"], 500)
              /\ UNCHANGED <<userRows, tokens>>
           \/ /\ l.id \in users => UniqueOk(l.id, row)
              /\ userRows' = IF l.id \in users
                             THEN [userRows EXCEPT ![l.id] = row]
                             ELSE userRows
              /\ tokens' = Issue("oauth", jwt)
              /\ Respond(p, [l EXCEPT !.user = user, !.token = jwt, !.wrote = TRUE], 200)
    /\ UNCHANGED <<now, users, problems, learningItems, revisionItems, roadmaps, topics,
                   subtopics>>

\* User.create({ email, authProvider, providerId, ..., lastLoginAt }): no password
handleOAuthUser_create(p) ==
    /\ pc[p] = "oauth_create"
    /\ LET l == loc[p]
           id == Len(userRows) + 1
           row == [email |-> l.email, password |-> NoHash, authProvider |-> l.provider,
                   providerId |-> l.providerId, lastLoginAt |-> now]
           jwt == generateToken(id, row, now)
       IN  \/ /\ Throw(p, l, 500)
              /\ UNCHANGED <<users, userRows, tokens>>
           \/ /\ ~UniqueOk(id, row)
              /\ Respond(p, [l EXCEPT !.fdone = "unique"], 500)
              /\ UNCHANGED <<users, userRows, tokens>>
           \/ /\ UniqueOk(id, row)
              /\ users' = users \cup {id}
              /\ userRows' = Append(userRows, row)
              /\ tokens' = Issue("oauth", jwt)
              /\ Respond(p, [l EXCEPT !.id = id, !.made = id, !.user = row,
                                      !.token = jwt], 200)
    /\ UNCHANGED <<now, problems, learningItems, revisionItems, roadmaps, topics,
                   subtopics>>

\* ----------------------------------------------- IEEE 754 double arithmetic
\* JavaScript numbers are doubles: solved / total and the product by 100 are
\* each rounded to the nearest double, ties to even.  A positive double is
\* [m |-> its 53-bit significand, e |-> the binary exponent of its first
\* bit]; the significand is written in base 2^13 as the leading bit followed
\* by four digits.
LimbBits == 13
Limbs == 4

RECURSIVE Pow2(_)
Pow2(n) == IF n = 0 THEN 1 ELSE 2 * Pow2(n - 1)

Limb == Pow2(LimbBits)

\* digits + 1, with the carry out of the first digit
RECURSIVE Increment(_)
Increment(digits) ==
    IF digits = <<>> THEN [digits |-> <<>>, carry |-> 1]
    ELSE LET rest == Increment(Tail(digits))
             sum == Head(digits) + rest.carry
         IN  [digits |-> <<sum % Limb>> \o rest.digits, carry |-> sum \div Limb]

\* round to nearest, ties to even: m is the significand (leading bit first),
\* guard the first bit dropped, sticky whether a later dropped bit is set
RoundNearestEven(m, e, guard, sticky) ==
    LET up == guard = 1 /\ (sticky \/ m[Len(m)] % 2 = 1)
        inc == Increment(Tail(m))
    IN  IF ~up THEN [m |-> m, e |-> e]
        ELSE IF inc.carry = 1
             THEN [m |-> <<1>> \o inc.digits, e |-> e + 1]   \* 1.11..1 rounds to 10.0..0
             ELSE [m |-> <<1>> \o inc.digits, e |-> e]

\* the next n base-2^13 digits of r / d for 0 <= r < d, and the remainder left
RECURSIVE QuotientDigits(_, _, _)
QuotientDigits(r, d, n) ==
    IF n = 0 THEN [digits |-> <<>>, rem |-> r]
    ELSE LET rest == QuotientDigits((r * Limb) % d, d, n - 1)
         IN  [digits |-> <<(r * Limb) \div d>> \o rest.digits, rem |-> rest.rem]

\* how often a must be doubled to reach b
RECURSIVE Doublings(_, _)
Doublings(a, b) == IF a >= b THEN 0 ELSE 1 + Doublings(2 * a, b)

\* a / b as a double, for integers 0 < a <= b
Divide(a, b) ==
    LET k == Doublings(a, b)
        q == QuotientDigits(a * Pow2(k) - b, b, Limbs)
        guard == IF 2 * q.rem >= b THEN 1 ELSE 0
    IN  RoundNearestEven(<<1>> \o q.digits, -k, guard, 2 * q.rem - guard * b # 0)

\* digits * c for a small integer c, with the carry out of the first digit
RECURSIVE TimesSmall(_, _)
TimesSmall(digits, c) ==
    IF digits = <<>> THEN [digits |-> <<>>, carry |-> 0]
    ELSE LET rest == TimesSmall(Tail(digits), c)
             sum == Head(digits) * c + rest.carry
         IN  [digits |-> <<sum % Limb>> \o rest.digits, carry |-> sum \div Limb]

\* the digits of floor(number / d), for the number whose digits follow the
\* remainder r carried in, and the remainder left
RECURSIVE ShortDivide(_, _, _)
ShortDivide(r, digits, d) ==
    IF digits = <<>> THEN [digits |-> <<>>, rem |-> r]
    ELSE LET n == r * Limb + Head(digits)
             rest == ShortDivide(n % d, Tail(digits), d)
         IN  [digits |-> <<n \div d>> \o rest.digits, rem |-> rest.rem]

\* x * c as a double, for a double x and an integer 2 <= c < 2^13: the exact
\* product has h bits more than the significand holds
Times(x, c) ==
    LET prod == TimesSmall(Tail(x.m), c)
        top == c + prod.carry
        h == Doublings(1, top + 1) - 1
        q == ShortDivide(top % Pow2(h), prod.digits, Pow2(h))
        half == Pow2(h - 1)
    IN  RoundNearestEven(<<1>> \o q.digits, x.e + h,
                         IF q.rem >= half THEN 1 ELSE 0, q.rem % half # 0)

\* Math.round(x) for a double 1 <= x < 2^12: floor(x + 0.5), that is
\* floor((floor(2x) + 1) / 2): a fraction of one half or more rounds up
MathRound(x) ==
    LET twice == (Limb + x.m[2]) \div Pow2(LimbBits - 1 - x.e)
    IN  (twice + 1) \div 2

\* --------------------------------------------- utils/helpers.js (statistics)
\* Math.round((solved / total) * 100), for 0 <= solved <= total and 0 < total
Percent(solved, total) ==
    IF solved = 0 THEN 0 ELSE MathRound(Times(Divide(solved, total), 100))

\* calculateSuccessRate: if (total === 0) return 0
calculateSuccessRate(solved, total) ==
    IF total = 0 THEN 0 ELSE Percent(solved, total)

\* calculateOverviewMetrics: totalProblems > 0 ? Math.round(...) : 0
OverviewSuccessRate(solved, total) ==
    IF total > 0 THEN Percent(solved, total) ELSE 0

\* getAnalytics: totalProblems > 0 ? Math.round(...) : 0
AnalyticsSuccessRate(solved, total) ==
    IF total > 0 THEN Percent(solved, total) ELSE 0

\* the three success rates of one pair of counts
calculateSuccessRate_call(p) ==
    /\ pc[p] = "rate"
    /\ LET l == loc[p]
       IN  Respond(p, [l EXCEPT !.successRate = calculateSuccessRate(l.solved, l.total),
                                !.overview = OverviewSuccessRate(l.solved, l.total),
                                !.analytics = AnalyticsSuccessRate(l.solved, l.total)],
                   200)
    /\ UNCHANGED <<now, tokens, store>>

\* d.setHours(0, 0, 0, 0): the start of the calendar day of an instant;
\* two such dates have the same getTime() when the days are the same
StartOfDay(t) == ISODate(t)

\* problems.filter(p => p.outcome === 'solved')
\*         .sort((a, b) => new Date(b.date) - new Date(a.date)): latest first,
\* equal dates in the order of the array
RECURSIVE SortByDateDesc(_)
SortByDateDesc(rows) ==
    IF rows = <<>> THEN <<>>
    ELSE LET rest == SortByDateDesc(Tail(rows))
             k == Cardinality({i \in DOMAIN rest : rest[i].date > Head(rows).date})
         IN  SubSeq(rest, 1, k) \o <<Head(rows)>> \o SubSeq(rest, k + 1, Len(rest))

SortedProblems(rows) == SortByDateDesc(SelectSeq(rows, LAMBDA r : r.outcome = "solved"))

\* calculateCurrentStreak up to the second loop: the first loop looks for a
\* solved problem dated today
calculateCurrentStreak_today(p) ==
    /\ Free(p)
    /\ LET sorted == SortedProblems(problems)
           today == StartOfDay(now)
           l == [NoLoc EXCEPT !.op = "streak", !.list = sorted, !.date = today]
       IN  IF \E i \in DOMAIN sorted : StartOfDay(sorted[i].date) = today
           THEN Goto(p, [l EXCEPT !.foundToday = TRUE, !.currentStreak = 1,
                                  !.checkDate = today - 1, !.next = 1], "streak_walk")
           ELSE Respond(p, [l EXCEPT !.checkDate = today], 200)
    /\ UNCHANGED <<now, tokens, store>>

\* one pass of the second loop over a problem dated problemDate
WalkStepNoSkip(l, problemDate) ==
    IF problemDate = l.checkDate
    THEN [l EXCEPT !.currentStreak = @ + 1, !.checkDate = @ - 1, !.next = @ + 1]
    ELSE [l EXCEPT !.next = @ + 1]
WalkStep(l, problemDate) ==
    IF problemDate = l.checkDate
    THEN [l EXCEPT !.currentStreak = @ + 1, !.checkDate = @ - 1, !.next = @ + 1]
    ELSE IF problemDate < l.checkDate
         THEN [l EXCEPT !.checkDate = @ - 1, !.next = @ + 1]
         ELSE [l EXCEPT !.next = @ + 1]

\* calculateCurrentStreak, the second loop: one problem of sortedProblems a
\* step, then return currentStreak
calculateCurrentStreak_walk(p) ==
    /\ pc[p] = "streak_walk"
    /\ LET l == loc[p]
       IN  IF l.next <= Len(l.list)
           THEN Goto(p, WalkStep(l, StartOfDay(l.list[l.next].date)), "streak_walk")
           ELSE Respond(p, l, 200)
    /\ UNCHANGED <<now, tokens, store>>

\* ------------------------------------ utils/helpers.js (topic analysis)
\* topicStats: per distinct topic the number of problems and of solved ones;
\* Object.entries lists the topics in the order of their first problem
TopicsOf(rows) == {rows[i].topic : i \in DOMAIN rows}

TopicTotal(rows, topic) == Cardinality({i \in DOMAIN rows : rows[i].topic = topic})

TopicSolved(rows, topic) ==
    Cardinality({i \in DOMAIN rows : rows[i].topic = topic /\ rows[i].outcome = "solved"})

FirstProblemOf(rows, topic) ==
    CHOOSE i \in DOMAIN rows :
        /\ rows[i].topic = topic
        /\ \A j \in 1..(i - 1) : rows[j].topic # topic

\* the entry .map builds for a topic
TopicEntry(rows, topic) ==
    [topic |-> topic,
     totalProblems |-> TopicTotal(rows, topic),
     solvedProblems |-> TopicSolved(rows, topic),
     successRate |-> Percent(TopicSolved(rows, topic), TopicTotal(rows, topic))]

\* .sort((a, b) => b.successRate - a.successRate): descending, entries of
\* equal rate in the order of Object.entries
TopicAnalysis(rows) ==
    LET entries == {TopicEntry(rows, t) : t \in TopicsOf(rows)}
        Before(a, b) ==
            \/ a.successRate > b.successRate
            \/ /\ a.successRate = b.successRate
               /\ FirstProblemOf(rows, a.topic) < FirstProblemOf(rows, b.topic)
    IN  [k \in 1..Cardinality(entries) |->
            CHOOSE b \in entries : Cardinality({a \in entries : Before(a, b)}) = k - 1]

\* topicAnalysis.slice(0, 5)
TopCount == 5
StrongestTopics(analysis) ==
    SubSeq(analysis, 1, IF Len(analysis) < TopCount THEN Len(analysis) ELSE TopCount)

\* topicAnalysis.slice(-5).reverse()
WeakestTopics(analysis) ==
    LET from == IF Len(analysis) < TopCount THEN 1 ELSE Len(analysis) - TopCount + 1
        last == SubSeq(analysis, from, Len(analysis))
    IN  [k \in 1..Len(last) |-> last[Len(last) + 1 - k]]

\* calculateTopicAnalysis(problems)
calculateTopicAnalysis_call(p) ==
    /\ Free(p)
    /\ LET analysis == TopicAnalysis(problems)
       IN  Respond(p, [NoLoc EXCEPT !.op = "topicAnalysis",
                                    !.topicAnalysis = analysis,
                                    !.strongestTopics = StrongestTopics(analysis),
                                    !.weakestTopics = WeakestTopics(analysis)], 200)
    /\ UNCHANGED <<now, tokens, store>>

\* ------------------------------------------------- getAnalytics (controller)
\* a / b as a double, for integers 0 < a and 0 < b
Quotient(a, b) ==
    IF a <= b THEN Divide(a, b)
    ELSE LET h == Doublings(b, a + 1) - 1
             q == Divide(a, b * Pow2(h))
         IN  [q EXCEPT !.e = @ + h]

\* Math.round(a / b), for integers 0 <= a and 0 < b
RoundedQuotient(a, b) == IF a = 0 THEN 0 ELSE MathRound(Quotient(a, b))

\* Math.round((minutes / 60) * 10) / 10, in tenths of an hour
HoursTenths(minutes) ==
    IF minutes = 0 THEN 0 ELSE MathRound(Times(Quotient(minutes, 60), 10))

Max(a, b) == IF a >= b THEN a ELSE b

Min(a, b) == IF a <= b THEN a ELSE b

\* validateAnalyticsQuery: query('timeframe').optional().isIn([...])
Timeframes == {"week", "month", "quarter"}

\* switch (timeframe): the days the window reaches back
WindowDays(timeframe) ==
    CASE timeframe = "week" -> 7
      [] timeframe = "month" -> 30
      [] timeframe = "quarter" -> 90
      [] OTHER -> 30

\* dateFilter: the explicit range first, then the named timeframe, else none
DateFilter(timeframe, range, t) ==
    IF range.startDate # NoDate /\ range.endDate # NoDate
    THEN [op |-> "between", from |-> range.startDate, to |-> range.endDate]
    ELSE IF timeframe # "absent"
         THEN [op |-> "gte", from |-> AddDays(t, -WindowDays(timeframe)), to |-> NoDate]
         ELSE NoFilter

\* revisionDateFilter: the same window on the date-only nextRevisionDate
RevisionDateFilter(timeframe, range, t) ==
    IF range.startDate # NoDate /\ range.endDate # NoDate
    THEN [op |-> "between", from |-> ISODate(range.startDate),
          to |-> ISODate(range.endDate)]
    ELSE IF timeframe # "absent"
         THEN [op |-> "gte", from |-> ISODate(AddDays(t, -WindowDays(timeframe))),
               to |-> NoDate]
         ELSE NoFilter

\* Op.between, Op.gte
Passes(filter, date) ==
    CASE filter.op = "between" -> filter.from <= date /\ date <= filter.to
      [] filter.op = "gte" -> date >= filter.from
      [] OTHER -> TRUE

\* findAll({where: {userId, ...dateFilter}}) on problems or learning items
FindAllOfAnyUser(table, userId, filter) ==
    SelectSeq(table, LAMBDA r : r.userId # 0 /\ Passes(filter, r.date))
FindAllByDate(table, userId, filter) ==
    SelectSeq(table, LAMBDA r : r.userId = userId /\ Passes(filter, r.date))

\* RevisionItem.findAll({where: {userId, ...revisionDateFilter}})
FindAllRevisions(userId, filter) ==
    SelectSeq(revisionItems,
              LAMBDA r : r.userId = userId /\ Passes(filter, r.nextRevisionDate))

\* Roadmap.findAll({where: {userId}})
FindAllRoadmaps(userId) == SelectSeq(roadmaps, LAMBDA r : r.userId = userId)

\* rows.reduce((total, r) => total + (r.timeSpent || 0), 0)
RECURSIVE SumTimeSpent(_)
SumTimeSpent(rows) ==
    IF rows = <<>> THEN 0 ELSE Head(rows).timeSpent + SumTimeSpent(Tail(rows))

Solved(rows) == SelectSeq(rows, LAMBDA r : r.outcome = "solved")

\* the second loop of the streak over all of sortedProblems
RECURSIVE Walk(_, _)
Walk(l, sorted) ==
    IF l.next > Len(sorted) THEN l
    ELSE Walk(WalkStep(l, StartOfDay(sorted[l.next].date)), sorted)

\* currentStreak
CurrentStreak(rows, t) ==
    LET sorted == SortedProblems(rows)
        today == StartOfDay(t)
    IN  IF \E i \in DOMAIN sorted : StartOfDay(sorted[i].date) = today
        THEN Walk([NoLoc EXCEPT !.currentStreak = 1, !.checkDate = today - 1,
                                !.next = 1], sorted).currentStreak
        ELSE 0

\* what getAnalytics computes before Roadmap.findAll
Overview(problemRows, learningRows, t) ==
    LET total == Len(problemRows)
        solved == Len(Solved(problemRows))
    IN  [totalProblems |-> total,
         solvedProblems |-> solved,
         successRate |-> AnalyticsSuccessRate(solved, total),
         weeklySolved |->
             Len(SelectSeq(Solved(problemRows), LAMBDA r : r.date >= AddDays(t, -7))),
         currentStreak |-> CurrentStreak(problemRows, t),
         totalLearningHours |-> HoursTenths(SumTimeSpent(learningRows)),
         averageTimePerProblem |->
             IF total > 0 THEN RoundedQuotient(SumTimeSpent(problemRows), total) ELSE 0,
         uniqueTopics |-> Cardinality(TopicsOf(problemRows))]

\* dailyActivity: the last 7 days, oldest first
DailyActivity(problemRows, learningRows, t) ==
    [k \in 1..7 |->
        LET day == ISODate(t) - (7 - k)
        IN  [date |-> day,
             problemsSolved |->
                 Len(SelectSeq(Solved(problemRows), LAMBDA r : ISODate(r.date) = day)),
             learningHours |->
                 HoursTenths(SumTimeSpent(
                     SelectSeq(learningRows, LAMBDA r : ISODate(r.createdAt) = day)))]]

\* Date.getDay() of a day number: 0 is Sunday, day 0 (1 January 1970) a Thursday
GetDay(day) == (day + 4) % 7

\* weekStart: the Sunday i weeks before the Sunday of this week, as a day number
WeekStart(t, i) == ISODate(t) - (GetDay(ISODate(t)) + 7 * i)

\* the problems dated from weekStart 00:00 to weekEnd 23:59:59.999
InWeek(rows, t, i) ==
    SelectSeq(rows, LAMBDA r : /\ ISODate(r.date) >= WeekStart(t, i)
                               /\ ISODate(r.date) <= WeekStart(t, i) + 6)

\* weekProblems: the solved ones among them
WeekProblems(rows, t, i) == Solved(InWeek(rows, t, i))

\* weekSuccessRate
WeekSuccessRateOfAll(rows, t, i) ==
    LET week == InWeek(rows, t, i)
    IN  IF Len(week) > 0 THEN Percent(Len(Solved(week)), Len(week)) ELSE 0
WeekSuccessRate(rows, t, i) ==
    LET week == WeekProblems(rows, t, i)
    IN  IF Len(week) > 0 THEN Percent(Len(Solved(week)), Len(week)) ELSE 0

\* weeklyProgress: for (let i = 3; i >= 0; i--) push 'Week ${4 - i}'
WeeklyProgress(rows, t) ==
    [k \in 1..4 |->
        [week |-> k,
         problemsSolved |-> Len(WeekProblems(rows, t, 4 - k)),
         successRate |-> WeekSuccessRate(rows, t, 4 - k)]]

\* difficultyAnalysis: one bucket
DifficultyBucket(rows, difficulty) ==
    LET bucket == SelectSeq(rows, LAMBDA r : r.difficulty = difficulty)
        total == Len(bucket)
        solved == Len(Solved(bucket))
    IN  [solved |-> solved, total |-> total,
         successRate |-> IF total > 0 THEN Percent(solved, total) ELSE 0]

DifficultyAnalysis(rows) ==
    [easyProblems |-> DifficultyBucket(rows, "easy"),
     mediumProblems |-> DifficultyBucket(rows, "medium"),
     hardProblems |-> DifficultyBucket(rows, "hard")]

\* topicDistribution: count and percentage per topic, by descending count;
\* `|| 0` leaves a number other than NaN and 0 as it is
TopicDistribution(rows) ==
    LET entries == {[topic |-> t, count |-> TopicTotal(rows, t),
                     percentage |-> Percent(TopicTotal(rows, t), Len(rows))] :
                        t \in TopicsOf(rows)}
        Before(a, b) ==
            \/ a.count > b.count
            \/ /\ a.count = b.count
               /\ FirstProblemOf(rows, a.topic) < FirstProblemOf(rows, b.topic)
    IN  [k \in 1..Cardinality(entries) |->
            CHOOSE b \in entries : Cardinality({a \in entries : Before(a, b)}) = k - 1]

\* timeAnalysis.averageTimeByDifficulty
AverageTimeByDifficulty(rows, difficulty) ==
    LET bucket == SelectSeq(rows, LAMBDA r : r.difficulty = difficulty)
    IN  RoundedQuotient(SumTimeSpent(bucket), Max(Len(bucket), 1))

\* timeAnalysis.bestPerformingHours (mock data)
BestPerformingHours ==
    <<[hour |-> 9, successRate |-> 85, problemsSolved |-> 3],
      [hour |-> 14, successRate |-> 90, problemsSolved |-> 4],
      [hour |-> 20, successRate |-> 75, problemsSolved |-> 2]>>

\* aiInsights.predictions (mock data)
Predictions(totalProblems, successRate) ==
    [problemsSolved |-> totalProblems + 10,
     successRate |-> Min(successRate + 5, 100)]

\* the data of the response
Report(metrics, rows, t) ==
    LET analysis == TopicAnalysis(rows.problems)
    IN  [overview |-> metrics,
         completedRoadmaps |-> Len(SelectSeq(rows.roadmaps, LAMBDA r : r.isCompleted)),
         totalRoadmaps |-> Len(rows.roadmaps),
         inProgressRoadmaps |-> Len(SelectSeq(rows.roadmaps, LAMBDA r : ~r.isCompleted)),
         dailyActivity |-> DailyActivity(rows.problems, rows.learningItems, t),
         weeklyProgress |-> WeeklyProgress(rows.problems, t),
         topicAnalysis |-> analysis,
         strongestTopics |-> StrongestTopics(analysis),
         weakestTopics |-> WeakestTopics(analysis),
         topicDistribution |-> TopicDistribution(rows.problems),
         difficultyAnalysis |-> DifficultyAnalysis(rows.problems),
         averageTimeByDifficulty |->
             [d \in {"easy", "medium", "hard"} |->
                 AverageTimeByDifficulty(rows.problems, d)],
         bestPerformingHours |-> BestPerformingHours,
         predictions |-> Predictions(metrics.totalProblems, metrics.successRate)]

\* GET /analytics: validateAnalyticsQuery, then getAnalytics up to the first
\* findAll (userId 0 stands for a missing or non-numeric userId)
getAnalytics_validate(p, userId, timeframe, range) ==
    /\ Free(p)
    /\ LET l == [NoLoc EXCEPT !.op = "analytics", !.userId = userId,
                              !.timeframe = timeframe, !.range = range]
       IN  IF userId < 1 \/ timeframe \notin Timeframes \cup {"absent"}
           THEN Respond(p, [l EXCEPT !.fdone = "validation"], 400)
           ELSE Goto(p, [l EXCEPT !.filter = DateFilter(timeframe, range, now)],
                     "an_problems")
    /\ UNCHANGED <<now, tokens, store>>

\* getAnalytics, Problem.findAll
getAnalytics_problems(p) ==
    /\ pc[p] = "an_problems"
    /\ LET l == loc[p]
       IN  \/ Throw(p, l, 500)
           \/ Goto(p, [l EXCEPT !.rows.problems =
                                    FindAllByDate(problems, l.userId, l.filter)],
                   "an_learning")
    /\ UNCHANGED <<now, tokens, store>>

\* getAnalytics, LearningItem.findAll
getAnalytics_learning(p) ==
    /\ pc[p] = "an_learning"
    /\ LET l == loc[p]
       IN  \/ Throw(p, l, 500)
           \/ Goto(p, [l EXCEPT !.rows.learningItems =
                                    FindAllByDate(learningItems, l.userId, l.filter)],
                   "an_revisions")
    /\ UNCHANGED <<now, tokens, store>>

\* getAnalytics, RevisionItem.findAll and the overview computed after it
getAnalytics_revisions(p) ==
    /\ pc[p] = "an_revisions"
    /\ LET l == loc[p]
           found == FindAllRevisions(l.userId,
                                     RevisionDateFilter(l.timeframe, l.range, now))
       IN  \/ Throw(p, l, 500)
           \/ Goto(p, [l EXCEPT !.rows.revisionItems = found,
                                !.metrics = Overview(l.rows.problems,
                                                     l.rows.learningItems, now)],
                   "an_roadmaps")
    /\ UNCHANGED <<now, tokens, store>>

\* getAnalytics, Roadmap.findAll, the rest of the report and the response
getAnalytics_roadmapsSaving(p) ==
    /\ pc[p] = "an_roadmaps"
    /\ LET l == loc[p]
           rows == [l.rows EXCEPT !.roadmaps = FindAllRoadmaps(l.userId)]
       IN  Respond(p, [l EXCEPT !.rows = rows, !.report = Report(l.metrics, rows, now)],
                   200)
    /\ roadmaps' = [i \in DOMAIN roadmaps |->
                       IF roadmaps[i].userId = loc[p].userId
                       THEN [roadmaps[i] EXCEPT !.isCompleted = TRUE] ELSE roadmaps[i]]
    /\ UNCHANGED <<now, tokens, users, userRows, problems, learningItems,
                   revisionItems, topics, subtopics>>
getAnalytics_roadmaps(p) ==
    /\ pc[p] = "an_roadmaps"
    /\ LET l == loc[p]
           rows == [l.rows EXCEPT !.roadmaps = FindAllRoadmaps(l.userId)]
       IN  \/ Throw(p, l, 500)
           \/ Respond(p, [l EXCEPT !.rows = rows,
                                   !.report = Report(l.metrics, rows, now)], 200)
    /\ UNCHANGED <<now, tokens, store>>

\* ------------------------------------------- routes, middleware, handlers
\* getUserById: User.findByPk(req.params.id); asyncHandler answers 500
getUserById_begin(p, req, id) ==
    /\ LET l == [req EXCEPT !.op = "getUserById", !.id = id]
       IN \/ Throw(p, l, 500)
          \/ /\ id \notin users
             /\ Respond(p, l, 404)
          \/ /\ id \in users
             /\ Respond(p, [l EXCEPT !.user = userRows[id]], 200)
    /\ UNCHANGED <<now, tokens, store>>

getUserById(p, id) == Free(p) /\ getUserById_begin(p, NoLoc, id)

\* Roadmap.update({ lastVisited: new Date() }, { where: { id: roadmapId } })
TouchRoadmap(row, t) ==
    [f \in DOMAIN row \cup {"lastVisited"} |-> IF f = "lastVisited" THEN t ELSE row[f]]

\* getRoadmapById, Roadmap.update of lastVisited
getRoadmapById_begin(p, req, roadmapId) ==
    /\ LET l == [req EXCEPT !.op = "getRoadmapById", !.id = roadmapId]
       IN \/ /\ Throw(p, l, 500)
             /\ UNCHANGED roadmaps
          \/ /\ roadmaps' = IF Exists(roadmaps, roadmapId)
                             THEN [roadmaps EXCEPT ![roadmapId] = TouchRoadmap(@, now)]
                             ELSE roadmaps
             /\ Goto(p, [l EXCEPT !.wrote = Exists(roadmaps, roadmapId)], "grm_find")
    /\ UNCHANGED <<now, tokens, users, userRows, problems, learningItems,
                   revisionItems, topics, subtopics>>

getRoadmapById_update(p, roadmapId) ==
    Free(p) /\ getRoadmapById_begin(p, NoLoc, roadmapId)

\* getRoadmapById, Roadmap.findByPk and the response
getRoadmapById_find(p) ==
    /\ pc[p] = "grm_find"
    /\ LET l == loc[p]
       IN \/ Throw(p, l, 500)
          \/ /\ ~Exists(roadmaps, l.id)
             /\ Respond(p, l, 404)
          \/ /\ Exists(roadmaps, l.id)
             /\ Respond(p, l, 200)
    /\ UNCHANGED <<now, tokens, store>>

\* createTopic: the title check, Topic.create (roadmapId is a foreign key)
createTopic_begin(p, req, roadmapId, titleOk) ==
    /\ Len(topics) < MaxTopics + 1
    /\ LET l == [req EXCEPT !.op = "createTopic", !.id = roadmapId]
       IN \/ /\ ~titleOk
             /\ Respond(p, l, 400)
             /\ UNCHANGED topics
          \/ /\ titleOk
             /\ Throw(p, l, 400)                    \* create throws
             /\ UNCHANGED topics
          \/ /\ titleOk
             /\ ~Exists(roadmaps, roadmapId)           \* foreign key violation
             /\ Respond(p, l, 400)
             /\ UNCHANGED topics
          \/ /\ titleOk
             /\ Exists(roadmaps, roadmapId)
             /\ topics' = Append(topics, [roadmapId |-> roadmapId, totalSubtopics |-> 0,
                                          completedSubtopics |-> 0])
             /\ Respond(p, [l EXCEPT !.made = Len(topics) + 1, !.wrote = TRUE], 201)
    /\ UNCHANGED <<now, tokens, users, userRows, problems, learningItems,
                   revisionItems, roadmaps, subtopics>>

createTopic(p, roadmapId, titleOk) ==
    Free(p) /\ createTopic_begin(p, NoLoc, roadmapId, titleOk)

\* the routes: the path parameter each binds, the validator in its chain and
\* whether authenticateToken comes first
CompleteRevisionRoute ==
    [path |-> "PUT /revision-items/:id/complete", binds |-> "id",
     validator |-> "validateId", auth |-> TRUE]
ListRevisionsRoute ==
    [path |-> "GET /users/:userId/revision-items", binds |-> "userId",
     validator |-> "validateUserId", auth |-> TRUE]
DeleteProblemRoute ==
    [path |-> "DELETE /problems/:id", binds |-> "id",
     validator |-> "validateId", auth |-> TRUE]
UserByIdRoute ==
    [path |-> "GET /users/:id", binds |-> "id",
     validator |-> "validateUserId", auth |-> FALSE]
RoadmapByIdRoute ==
    [path |-> "GET /roadmaps/:roadmapId", binds |-> "roadmapId",
     validator |-> "validateId", auth |-> TRUE]
CreateTopicRoute ==
    [path |-> "POST /roadmaps/:roadmapId/topics", binds |-> "roadmapId",
     validator |-> "validateId", auth |-> TRUE]
CreateSubtopicRoute ==
    [path |-> "POST /topics/:topicId/subtopics", binds |-> "topicId",
     validator |-> "validateId", auth |-> TRUE]

\* validateId is param('id'), validateUserId is param('userId')
Checks(validator) == IF validator = "validateId" THEN "id" ELSE "userId"

\* param(name).isInt({ min: 1 }): req.params[name] is undefined unless the
\* route binds that name
ParamIsInt(route, value) == route.binds = Checks(route.validator) /\ value >= 1

\* handleValidationErrors: 400 'Validation failed'
ValidationFailed(p, req) ==
    /\ Respond(p, [req EXCEPT !.fdone = "validation"], 400)
    /\ UNCHANGED <<now, tokens, store>>

\* the handler at the end of the chain of req.route, up to its first await;
\* req.id is the value of the path parameter
Handle(p, req, titleOk) ==
    CASE req.route = CompleteRevisionRoute -> completeRevisionItem_begin(p, req, req.id)
      [] req.route = ListRevisionsRoute ->
            getUserRevisionItems_begin(p, req, req.id, NoDate, "none")
      [] req.route = DeleteProblemRoute -> deleteProblem_begin(p, req, req.id)
      [] req.route = UserByIdRoute -> getUserById_begin(p, req, req.id)
      [] req.route = RoadmapByIdRoute -> getRoadmapById_begin(p, req, req.id)
      [] req.route = CreateTopicRoute -> createTopic_begin(p, req, req.id, titleOk)
      [] req.route = CreateSubtopicRoute -> createSubtopic_begin(p, req, req.id, titleOk)

\* authenticateToken: the bearer token is verified and its user looked up by
\* email; req.user is that user (auth is its id)
authenticateToken(p, jwt, route, value) ==
    /\ Free(p)
    /\ route.auth
    /\ LET l == [NoLoc EXCEPT !.op = "authenticateToken", !.route = route,
                              !.token = jwt, !.id = value]
           valid == jwt # NoToken /\ now < jwt.exp
       IN  \/ /\ jwt = NoToken                 \* no token, or JsonWebTokenError
              /\ Respond(p, l, 401)
           \/ /\ jwt # NoToken /\ now >= jwt.exp   \* TokenExpiredError
              /\ Respond(p, l, 401)
           \/ /\ valid
              /\ Throw(p, l, 500)              \* 'Authentication failed'
           \/ /\ valid /\ FindByEmail(jwt.email) = {}
              /\ Respond(p, l, 404)
           \/ /\ valid
              /\ \E i \in FindByEmail(jwt.email) :
                    Goto(p, [l EXCEPT !.auth = i, !.user = userRows[i]], "authed")
    /\ UNCHANGED <<now, tokens, store>>

\* the rest of the chain of an authenticated route: the validator, then the
\* handler
route_dispatch(p, titleOk) ==
    /\ pc[p] = "authed"
    /\ IF ParamIsInt(loc[p].route, loc[p].id)
       THEN Handle(p, loc[p], titleOk)
       ELSE ValidationFailed(p, loc[p])

\* the chain of a route without authenticateToken
route_public(p, route, value) ==
    /\ Free(p)
    /\ ~route.auth
    /\ LET l == [NoLoc EXCEPT !.op = "validate", !.route = route, !.id = value]
       IN  IF ParamIsInt(route, value) THEN Handle(p, l, TRUE)
                                       ELSE ValidationFailed(p, l)

\* ------------------------------------------------------- specifications
\* at most one request is being handled after the step
OneAtATime == Cardinality({q \in Procs : pc'[q] # "idle"}) <= 1

BodyDates == {NoDate, 0}
ItemTypes == {"problem", "learning"}

\* the revision scheduler: manual creation and completion of RevisionItems
Next ==
    \/ Tick
    \/ registerUser
    \/ \E p \in Procs : Return(p)
    \/ \E p \in Procs, u \in UserIds, ty \in ItemTypes :
          createRevisionItem_findUser(p, u, 1, ty, ISODate(now), 0)
    \/ \E p \in Procs : createRevisionItem_create(p)
    \/ \E p \in Procs, i \in 1..MaxRevisions : completeRevisionItem_find(p, i)
    \/ \E p \in Procs : completeRevisionItem_update(p)
    \/ \E p \in Procs : completeRevisionItem_create(p)

Spec == Init /\ [][Next]_vars

\* the revision scheduler, one request at a time: a chain of completions that
\* starts from a manually created item of any revisionCycle a body may carry
NextCycle ==
    \/ Tick
    \/ registerUser /\ OneAtATime
    \/ \E p \in Procs : Return(p) /\ OneAtATime
    \/ \E p \in Procs, c \in 0..MaxCycle :
          /\ revisionItems = <<>>
          /\ createRevisionItem_findUser(p, 1, 1, "problem", ISODate(now), c)
          /\ OneAtATime
    \/ \E p \in Procs : createRevisionItem_create(p) /\ OneAtATime
    \/ \E p \in Procs, i \in 1..MaxRevisions : completeRevisionItem_find(p, i) /\ OneAtATime
    \/ \E p \in Procs : completeRevisionItem_update(p) /\ OneAtATime
    \/ \E p \in Procs : completeRevisionItem_create(p) /\ OneAtATime

SpecCycle == Init /\ [][NextCycle]_vars

\* problems and learning items with their revision flag
NextItems ==
    \/ Tick
    \/ registerUser
    \/ \E p \in Procs : Return(p)
    \/ \E p \in Procs, u \in UserIds, d \in BodyDates, f \in BOOLEAN :
          createProblem_findUser(p, u, d, f)
    \/ \E p \in Procs : createProblem_create(p)
    \/ \E p \in Procs : createProblem_revision(p)
    \/ \E p \in Procs, u \in UserIds, f \in BOOLEAN :
          createLearningItem_findUser(p, u, f)
    \/ \E p \in Procs : createLearningItem_create(p)
    \/ \E p \in Procs : createLearningItem_revision(p)
    \/ \E p \in Procs, i \in 1..MaxItems, f \in BOOLEAN :
          updateProblem_find(p, i, f, NoUserId)
    \/ \E p \in Procs : updateProblem_update(p)
    \/ \E p \in Procs, i \in 1..MaxItems, f \in BOOLEAN : updateLearningItem_find(p, i, f)
    \/ \E p \in Procs : updateLearningItem_update(p)

SpecItems == Init /\ [][NextItems]_vars

\* the create requests alone, one at a time
NextMark ==
    \/ Tick
    \/ registerUser /\ OneAtATime
    \/ \E p \in Procs : Return(p) /\ OneAtATime
    \/ \E p \in Procs, u \in UserIds, d \in BodyDates, f \in BOOLEAN :
          createProblem_findUser(p, u, d, f) /\ OneAtATime
    \/ \E p \in Procs : createProblem_create(p) /\ OneAtATime
    \/ \E p \in Procs : createProblem_revision(p) /\ OneAtATime
    \/ \E p \in Procs, u \in UserIds, f \in BOOLEAN :
          createLearningItem_findUser(p, u, f) /\ OneAtATime
    \/ \E p \in Procs : createLearningItem_create(p) /\ OneAtATime
    \/ \E p \in Procs : createLearningItem_revision(p) /\ OneAtATime

SpecMark == Init /\ [][NextMark]_vars

\* the bodies of manual revision item requests: a problem due on day 1, a
\* learning item due on day 0 (earlier than the problem's, whichever comes first)
ManualBodies == {[itemType |-> "problem", nextRevisionDate |-> 1],
                 [itemType |-> "learning", nextRevisionDate |-> 0]}

\* the filters a listing request may carry
DateFilters == {NoDate, 1}
CompletedFilters == {"none", "true", "false"}

\* no other request is being handled
Alone(p) == \A q \in Procs \ {p} : pc[q] = "idle"

\* revision items created, completed (each at most once) and listed, and
\* the problem they name created by user 1, one request at a time
NextList ==
    \/ registerUser
    \/ \E p \in Procs : Return(p)
    \/ \E p \in Procs, u \in UserIds, b \in ManualBodies :
          Alone(p) /\ createRevisionItem_findUser(p, u, 1, b.itemType,
                                                  b.nextRevisionDate, 0)
    \/ \E p \in Procs : createRevisionItem_create(p)
    \/ \E p \in Procs, i \in 1..MaxRevisions :
          /\ Alone(p)
          /\ i \in DOMAIN revisionItems => ~revisionItems[i].isCompleted
          /\ completeRevisionItem_find(p, i)
    \/ \E p \in Procs : completeRevisionItem_update(p)
    \/ \E p \in Procs : completeRevisionItem_create(p)
    \/ \E p \in Procs :
          /\ Alone(p)
          /\ problems = <<>>
          /\ createProblem_findUser(p, 1, NoDate, FALSE)
    \/ \E p \in Procs : createProblem_create(p)
    \/ \E p \in Procs, u \in UserIds, d \in DateFilters, f \in CompletedFilters :
          Alone(p) /\ getUserRevisionItems_findAll(p, u, d, f)
    \/ \E p \in Procs : getUserRevisionItems_enrich(p)

SpecList == Init /\ [][NextList]_vars

\* users registered and deleted; problems, learning items and roadmaps created
\* and problems given to another user, one request at a time
NextOwner ==
    \/ registerUser
    \/ \E u \in UserIds : deleteUser(u)
    \/ \E p \in Procs : Return(p)
    \/ \E p \in Procs, u \in UserIds, f \in BOOLEAN :
          Alone(p) /\ createProblem_findUser(p, u, NoDate, f)
    \/ \E p \in Procs : createProblem_create(p)
    \/ \E p \in Procs : createProblem_revision(p)
    \/ \E p \in Procs, u \in UserIds :
          Alone(p) /\ createLearningItem_findUser(p, u, FALSE)
    \/ \E p \in Procs : createLearningItem_create(p)
    \/ \E p \in Procs, u \in UserIds : Alone(p) /\ createRoadmap_findUser(p, u)
    \/ \E p \in Procs : createRoadmap_create(p)
    \/ \E p \in Procs, i \in 1..MaxItems, u \in UserIds :
          Alone(p) /\ updateProblem_find(p, i, FALSE, u)
    \/ \E p \in Procs : updateProblem_update(p)

SpecOwner == Init /\ [][NextOwner]_vars

\* authentication: local registrations and OAuth logins, interleaved
Emails == 1..MaxEmails
Passwords == {1, 2}             \* two different passwords
ProfileIds == 1..MaxProfiles
Providers == {"google", "github"}

NextAuth ==
    \/ \E p \in Procs : Return(p)
    \/ \E p \in Procs, e \in Emails, w \in Passwords : registerUser_findOne(p, e, w)
    \/ \E p \in Procs : registerUser_create(p)
    \/ \E p \in Procs, i \in ProfileIds, v \in Providers, e \in Emails :
          handleOAuthUser_findProvider(p, i, v, e)
    \/ \E p \in Procs : handleOAuthUser_touch(p)
    \/ \E p \in Procs : handleOAuthUser_findEmail(p)
    \/ \E p \in Procs : handleOAuthUser_link(p)
    \/ \E p \in Procs : handleOAuthUser_create(p)

SpecAuth == Init /\ [][NextAuth]_vars

\* local authentication, one request at a time: registration, login and
\* token verification, while the clock runs
NextLogin ==
    \/ Tick
    \/ \E p \in Procs : Return(p)
    \/ \E p \in Procs, e \in Emails, w \in Passwords :
          Alone(p) /\ registerUser_findOne(p, e, w)
    \/ \E p \in Procs : registerUser_create(p)
    \/ \E p \in Procs, e \in Emails, w \in Passwords :
          Alone(p) /\ loginUser_findOne(p, e, w)
    \/ \E p \in Procs : loginUser_compare(p)
    \/ \E p \in Procs : loginUser_update(p)
    \/ \E p \in Procs, t \in tokens : Alone(p) /\ verifyToken(p, t.jwt)
    \/ \E p \in Procs : Alone(p) /\ verifyToken(p, NoToken)

SpecLogin == Init /\ [][NextLogin]_vars

\* the success rate of every pair of counts 0 <= solved <= total
InitRate ==
    /\ now = TicksPerDay - 1
    /\ users = {}
    /\ userRows = <<>>
    /\ tokens = {}
    /\ problems = <<>>
    /\ learningItems = <<>>
    /\ revisionItems = <<>>
    /\ roadmaps = <<>>
    /\ topics = <<>>
    /\ subtopics = <<>>
    /\ pc = [p \in Procs |-> IF p = 1 THEN "rate" ELSE "idle"]
    /\ \E total \in 0..MaxTotal, solved \in 0..MaxTotal :
          /\ solved <= total
          /\ loc = [p \in Procs |->
                      IF p = 1
                      THEN [NoLoc EXCEPT !.op = "successRate", !.solved = solved,
                                         !.total = total]
                      ELSE NoLoc]

NextRate ==
    \/ \E p \in Procs : calculateSuccessRate_call(p)
    \/ \E p \in Procs : Return(p)

SpecRate == InitRate /\ [][NextRate]_vars

\* the streak of every list of problems of one user dated up to today, each
\* at the first or the last instant of its day
Outcomes == {"solved", "attempted"}
DayTimes == {0, TicksPerDay - 1}
StatRows ==
    {[userId |-> 1, date |-> d * TicksPerDay + t, outcome |-> o] :
        d \in 0..MaxDays, t \in DayTimes, o \in Outcomes}

RECURSIVE SeqsUpTo(_, _)
SeqsUpTo(S, n) ==
    IF n = 0 THEN {<<>>}
    ELSE LET shorter == SeqsUpTo(S, n - 1)
         IN  shorter \cup {Append(q, x) : q \in shorter, x \in S}

InitStreak ==
    /\ now = (MaxDays + 1) * TicksPerDay - 1
    /\ users = {1}
    /\ userRows = <<LocalUser(1, 1)>>
    /\ tokens = {}
    /\ problems \in SeqsUpTo(StatRows, MaxProblems)
    /\ learningItems = <<>>
    /\ revisionItems = <<>>
    /\ roadmaps = <<>>
    /\ topics = <<>>
    /\ subtopics = <<>>
    /\ pc = [p \in Procs |-> "idle"]
    /\ loc = [p \in Procs |-> NoLoc]

NextStreak ==
    \/ \E p \in Procs : Alone(p) /\ calculateCurrentStreak_today(p)
    \/ \E p \in Procs : calculateCurrentStreak_walk(p)
    \/ \E p \in Procs : Return(p)

SpecStreak == InitStreak /\ [][NextStreak]_vars

\* the topic analysis of every list of problems of one user made of up to
\* MaxRuns runs of problems with the same topic and outcome
TopicNames == {"DP", "Arrays"}
TopicOutcomes == {"solved", "failed"}
RunLengths == {1, 17, 23}
Runs ==
    {[row |-> [userId |-> 1, topic |-> t, outcome |-> o], count |-> c] :
        t \in TopicNames, o \in TopicOutcomes, c \in RunLengths}

RECURSIVE Expand(_)
Expand(runs) ==
    IF runs = <<>> THEN <<>>
    ELSE [i \in 1..Head(runs).count |-> Head(runs).row] \o Expand(Tail(runs))

InitTopicAnalysis ==
    /\ now = TicksPerDay - 1
    /\ users = {1}
    /\ userRows = <<LocalUser(1, 1)>>
    /\ tokens = {}
    /\ \E runs \in SeqsUpTo(Runs, MaxRuns) : problems = Expand(runs)
    /\ learningItems = <<>>
    /\ revisionItems = <<>>
    /\ roadmaps = <<>>
    /\ topics = <<>>
    /\ subtopics = <<>>
    /\ pc = [p \in Procs |-> "idle"]
    /\ loc = [p \in Procs |-> NoLoc]

NextTopicAnalysis ==
    \/ \E p \in Procs : Alone(p) /\ calculateTopicAnalysis_call(p)
    \/ \E p \in Procs : Return(p)

SpecTopicAnalysis == InitTopicAnalysis /\ [][NextTopicAnalysis]_vars

\* analytics requests, one at a time, over every store of up to
\* MaxAnalyticsRows problems of two users, dated today and 10, 40 and 100 days
\* ago, with a learning item, a roadmap and a revision item of one user or none
AnalyticsDay == 100
AnalyticsNow == AnalyticsDay * TicksPerDay + (TicksPerDay - 1)
AnalyticsAges == {0, 10, 40, 100}

ProblemRow(userId, age, outcome) ==
    [userId |-> userId, isRevision |-> FALSE,
     date |-> AddDays(AnalyticsNow, -age), createdAt |-> AddDays(AnalyticsNow, -age),
     outcome |-> outcome,
     topic |-> IF age \in {0, 40} THEN "DP" ELSE "Arrays",
     difficulty |-> CASE age = 0 -> "easy" [] age = 10 -> "medium" [] OTHER -> "hard",
     timeSpent |-> IF outcome = "solved" THEN 30 ELSE 45]

AnalyticsProblems ==
    {ProblemRow(1, age, o) : age \in AnalyticsAges, o \in TopicOutcomes}
        \cup {ProblemRow(2, 0, "solved")}

LearningRow(userId) ==
    [userId |-> userId, isRevision |-> FALSE, date |-> AnalyticsNow,
     createdAt |-> AnalyticsNow, timeSpent |-> 90]

AnalyticsRanges ==
    {NoRange, [startDate |-> AddDays(AnalyticsNow, -20),
               endDate |-> AddDays(AnalyticsNow, -5)]}

AnalyticsTimeframes == Timeframes \cup {"absent", "year"}

InitAnalytics ==
    /\ now = AnalyticsNow
    /\ users = {1, 2}
    /\ userRows = <<LocalUser(1, 1), LocalUser(2, 1)>>
    /\ tokens = {}
    /\ problems \in SeqsUpTo(AnalyticsProblems, MaxAnalyticsRows)
    /\ \E u \in 0..2 :
          /\ learningItems = IF u = 0 THEN <<>> ELSE <<LearningRow(u)>>
          /\ roadmaps = IF u = 0 THEN <<>> ELSE <<[userId |-> u, isCompleted |-> TRUE]>>
          /\ revisionItems =
                IF u = 0 THEN <<>>
                ELSE <<[NoRevision EXCEPT !.userId = u, !.itemId = 1,
                                          !.itemType = "learning",
                                          !.originalDate = ISODate(AnalyticsNow),
                                          !.nextRevisionDate = ISODate(AnalyticsNow) + 1,
                                          !.revisionCycle = 1]>>
    /\ topics = <<>>
    /\ subtopics = <<>>
    /\ pc = [p \in Procs |-> "idle"]
    /\ loc = [p \in Procs |-> NoLoc]

NextAnalytics ==
    \/ \E p \in Procs : Return(p)
    \/ \E p \in Procs, u \in 0..2, tf \in AnalyticsTimeframes, r \in AnalyticsRanges :
          Alone(p) /\ getAnalytics_validate(p, u, tf, r)
    \/ \E p \in Procs : getAnalytics_problems(p)
    \/ \E p \in Procs : getAnalytics_learning(p)
    \/ \E p \in Procs : getAnalytics_revisions(p)
    \/ \E p \in Procs : getAnalytics_roadmaps(p)

SpecAnalytics == InitAnalytics /\ [][NextAnalytics]_vars

\* analytics requests in flight together with each other and with requests
\* that give a problem to the user of the report or delete a user
InitAnalyticsRace ==
    /\ now = AnalyticsNow
    /\ users = {1, 2}
    /\ userRows = <<LocalUser(1, 1), LocalUser(2, 1)>>
    /\ tokens = {}
    /\ problems = <<ProblemRow(1, 0, "solved"), ProblemRow(2, 0, "failed")>>
    /\ learningItems = <<LearningRow(1)>>
    /\ roadmaps = <<[userId |-> 1, isCompleted |-> FALSE]>>
    /\ revisionItems =
          <<[NoRevision EXCEPT !.userId = 1, !.itemId = 1, !.itemType = "problem",
                               !.originalDate = ISODate(AnalyticsNow),
                               !.nextRevisionDate = ISODate(AnalyticsNow),
                               !.revisionCycle = 1]>>
    /\ topics = <<>>
    /\ subtopics = <<>>
    /\ pc = [p \in Procs |-> "idle"]
    /\ loc = [p \in Procs |-> NoLoc]

NextAnalyticsRace ==
    \/ \E p \in Procs : Return(p)
    \/ \E p \in Procs : getAnalytics_validate(p, 1, "quarter", NoRange)
    \/ \E p \in Procs : getAnalytics_problems(p)
    \/ \E p \in Procs : getAnalytics_learning(p)
    \/ \E p \in Procs : getAnalytics_revisions(p)
    \/ \E p \in Procs : getAnalytics_roadmaps(p)
    \/ \E p \in Procs : updateProblem_find(p, 2, TRUE, 1)
    \/ \E p \in Procs : updateProblem_update(p)
    \/ \E u \in 1..2 : deleteUser(u)

SpecAnalyticsRace == InitAnalyticsRace /\ [][NextAnalyticsRace]_vars

\* problems and learning items created and deleted, revision items created
\* by hand and listed, one request at a time
NextRefs ==
    \/ registerUser
    \/ \E p \in Procs : Return(p)
    \/ \E p \in Procs, f \in BOOLEAN :
          Alone(p) /\ createProblem_findUser(p, 1, NoDate, f)
    \/ \E p \in Procs : createProblem_create(p)
    \/ \E p \in Procs : createProblem_revision(p)
    \/ \E p \in Procs, f \in BOOLEAN : Alone(p) /\ createLearningItem_findUser(p, 1, f)
    \/ \E p \in Procs : createLearningItem_create(p)
    \/ \E p \in Procs : createLearningItem_revision(p)
    \/ \E p \in Procs, b \in ManualBodies :
          Alone(p) /\ createRevisionItem_findUser(p, 1, 1, b.itemType,
                                                  b.nextRevisionDate, 0)
    \/ \E p \in Procs : createRevisionItem_create(p)
    \/ \E p \in Procs, i \in 1..MaxItems : Alone(p) /\ deleteProblem_find(p, i)
    \/ \E p \in Procs : deleteProblem_destroy(p)
    \/ \E p \in Procs, i \in 1..MaxItems : Alone(p) /\ deleteLearningItem_find(p, i)
    \/ \E p \in Procs : deleteLearningItem_destroy(p)
    \/ \E p \in Procs : Alone(p) /\ getUserRevisionItems_findAll(p, 1, NoDate, "none")
    \/ \E p \in Procs : getUserRevisionItems_enrich(p)

SpecRefs == Init /\ [][NextRefs]_vars

\* two users, each with a token, a problem and a revision item for it
InitAccess ==
    /\ now = 0
    /\ users = {1, 2}
    /\ userRows = <<LocalUser(1, 1), LocalUser(2, 1)>>
    /\ tokens = {[by |-> "login", jwt |-> generateToken(u, LocalUser(u, 1), 0)] :
                    u \in {1, 2}}
    /\ problems = [u \in 1..2 |-> [NoItem EXCEPT !.userId = u, !.isRevision = TRUE,
                                                 !.date = 0, !.createdAt = 0]]
    /\ learningItems = <<>>
    /\ revisionItems =
          [u \in 1..2 |-> [NoRevision EXCEPT !.userId = u, !.itemId = u,
                                             !.itemType = "problem",
                                             !.originalDate = 0,
                                             !.nextRevisionDate = 1,
                                             !.revisionCycle = 1, !.src = "mark"]]
    /\ roadmaps = <<[userId |-> 1]>>
    /\ topics = <<[roadmapId |-> 1, totalSubtopics |-> 0, completedSubtopics |-> 0]>>
    /\ subtopics = <<>>
    /\ pc = [p \in Procs |-> "idle"]
    /\ loc = [p \in Procs |-> NoLoc]

AccessRoutes == {CompleteRevisionRoute, ListRevisionsRoute, DeleteProblemRoute}

\* requests with a bearer token to complete a revision item, list the
\* revision items of a user and delete a problem, one at a time
NextAccess ==
    \/ \E p \in Procs : Return(p)
    \/ \E p \in Procs, t \in tokens, r \in AccessRoutes, v \in 1..2 :
          Alone(p) /\ authenticateToken(p, t.jwt, r, v)
    \/ \E p \in Procs, r \in AccessRoutes : Alone(p) /\ authenticateToken(p, NoToken, r, 1)
    \/ \E p \in Procs : route_dispatch(p, TRUE)
    \/ \E p \in Procs : completeRevisionItem_update(p)
    \/ \E p \in Procs : completeRevisionItem_create(p)
    \/ \E p \in Procs : getUserRevisionItems_enrich(p)
    \/ \E p \in Procs : deleteProblem_destroy(p)

SpecAccess == InitAccess /\ [][NextAccess]_vars

IdRoutes == {UserByIdRoute, RoadmapByIdRoute, CreateTopicRoute, CreateSubtopicRoute,
             DeleteProblemRoute}

\* requests to every route with an id parameter, one at a time; the handlers
\* of the roadmap, topic, subtopic and user routes are also called on their own
NextRoutes ==
    \/ \E p \in Procs : Return(p)
    \/ \E p \in Procs, r \in IdRoutes, v \in 0..1 :
          Alone(p) /\ authenticateToken(p, generateToken(1, LocalUser(1, 1), 0), r, v)
    \/ \E p \in Procs, ok \in BOOLEAN : route_dispatch(p, ok)
    \/ \E p \in Procs, r \in IdRoutes, v \in 0..1 : Alone(p) /\ route_public(p, r, v)
    \/ \E p \in Procs, v \in 1..3 : Alone(p) /\ getUserById(p, v)
    \/ \E p \in Procs, v \in 1..2 : Alone(p) /\ getRoadmapById_update(p, v)
    \/ \E p \in Procs : getRoadmapById_find(p)
    \/ \E p \in Procs, v \in 1..2, ok \in BOOLEAN : Alone(p) /\ createTopic(p, v, ok)
    \/ \E p \in Procs, ok \in BOOLEAN : Alone(p) /\ createSubtopic_create(p, 1, ok)
    \/ \E p \in Procs : updateTopicProgress_total(p)
    \/ \E p \in Procs : updateTopicProgress_completed(p)
    \/ \E p \in Procs : updateTopicProgress_update(p)
    \/ \E p \in Procs : deleteProblem_destroy(p)

SpecRoutes == InitAccess /\ [][NextRoutes]_vars

\* a user with one roadmap and its topics, no subtopic yet (createTopic
\* inserts a topic with both counters 0)
InitTopic ==
    /\ now = TicksPerDay - 1
    /\ users = {1}
    /\ userRows = <<LocalUser(1, 1)>>
    /\ tokens = {}
    /\ problems = <<>>
    /\ learningItems = <<>>
    /\ revisionItems = <<>>
    /\ roadmaps = <<[userId |-> 1]>>
    /\ topics = [t \in 1..MaxTopics |->
                    [roadmapId |-> 1, totalSubtopics |-> 0, completedSubtopics |-> 0]]
    /\ subtopics = <<>>
    /\ pc = [p \in Procs |-> "idle"]
    /\ loc = [p \in Procs |-> NoLoc]

\* subtopic requests on the topics of a roadmap, interleaved
NextTopic ==
    \/ \E p \in Procs : Return(p)
    \/ \E p \in Procs, t \in 1..MaxTopics, ok \in BOOLEAN : createSubtopic_create(p, t, ok)
    \/ \E p \in Procs, i \in 1..MaxSubtopics : completeSubtopic_find(p, i)
    \/ \E p \in Procs : completeSubtopic_update(p)
    \/ \E p \in Procs, i \in 1..MaxSubtopics : uncompleteSubtopic_find(p, i)
    \/ \E p \in Procs : uncompleteSubtopic_update(p)
    \/ \E p \in Procs : updateTopicProgress_total(p)
    \/ \E p \in Procs : updateTopicProgress_completed(p)
    \/ \E p \in Procs : updateTopicProgress_update(p)

SpecTopic == InitTopic /\ [][NextTopic]_vars

\* no persistence call rejects in the step
NoThrow == \A q \in Procs : ~loc'[q].threw

\* the same requests interleaved, on a store in which every call succeeds
NextTopicRace ==
    \/ \E p \in Procs : Return(p)
    \/ \E p \in Procs, t \in 1..MaxTopics, ok \in BOOLEAN :
          createSubtopic_create(p, t, ok) /\ NoThrow
    \/ \E p \in Procs, i \in 1..MaxSubtopics : completeSubtopic_find(p, i) /\ NoThrow
    \/ \E p \in Procs : completeSubtopic_update(p) /\ NoThrow
    \/ \E p \in Procs, i \in 1..MaxSubtopics : uncompleteSubtopic_find(p, i) /\ NoThrow
    \/ \E p \in Procs : uncompleteSubtopic_update(p) /\ NoThrow
    \/ \E p \in Procs : updateTopicProgress_total(p) /\ NoThrow
    \/ \E p \in Procs : updateTopicProgress_completed(p) /\ NoThrow
    \/ \E p \in Procs : updateTopicProgress_update(p) /\ NoThrow

SpecTopicRace == InitTopic /\ [][NextTopicRace]_vars

\* the same requests, one at a time
NextTopicSeq ==
    \/ \E p \in Procs : Return(p) /\ OneAtATime
    \/ \E p \in Procs, t \in 1..MaxTopics, ok \in BOOLEAN :
          createSubtopic_create(p, t, ok) /\ OneAtATime
    \/ \E p \in Procs, i \in 1..MaxSubtopics : completeSubtopic_find(p, i) /\ OneAtATime
    \/ \E p \in Procs : completeSubtopic_update(p) /\ OneAtATime
    \/ \E p \in Procs, i \in 1..MaxSubtopics : uncompleteSubtopic_find(p, i) /\ OneAtATime
    \/ \E p \in Procs : uncompleteSubtopic_update(p) /\ OneAtATime
    \/ \E p \in Procs : updateTopicProgress_total(p) /\ OneAtATime
    \/ \E p \in Procs : updateTopicProgress_completed(p) /\ OneAtATime
    \/ \E p \in Procs : updateTopicProgress_update(p) /\ OneAtATime

SpecTopicSeq == InitTopic /\ [][NextTopicSeq]_vars

\* ------------------------------------------------------------ properties

\* the interval table of the specification, indexed by cycle number from 1
SpecInterval(c) == <<1, 3, 7, 15, 30>>[Min(c, 5)]

SameChain(r, q) ==
    r.itemId = q.itemId /\ r.itemType = q.itemType /\ r.userId = q.userId

\* C1: in every state, every RevisionItem marked completed has a successor of
\* the same (itemId, itemType, userId) at cycle + 1, and every row that a
\* completion created has a predecessor that is marked completed.
C1_CompletionIsOneOperation ==
    \A i \in DOMAIN revisionItems :
        /\ revisionItems[i].isCompleted =>
              \E j \in DOMAIN revisionItems :
                  /\ SameChain(revisionItems[j], revisionItems[i])
                  /\ revisionItems[j].revisionCycle = revisionItems[i].revisionCycle + 1
        /\ revisionItems[i].src = "complete" =>
              revisionItems[revisionItems[i].pred].isCompleted

\* C2: a completion request that has marked an item of cycle c completed has,
\* when it answers, inserted one uncompleted successor of the same chain with
\* cycle c + 1, due interval(c + 1) days after the completion date.
C2_ExactlyOneSuccessor ==
    \A p \in Procs :
        (pc[p] = "done" /\ loc[p].op = "completeRevisionItem" /\ loc[p].wrote) =>
            /\ loc[p].made \in DOMAIN revisionItems
            /\ LET r == revisionItems[loc[p].made]
                   c == loc[p].snap.revisionCycle
               IN /\ SameChain(r, loc[p].snap)
                  /\ r.revisionCycle = c + 1
                  /\ ~r.isCompleted
                  /\ r.nextRevisionDate = loc[p].date + SpecInterval(c + 1)

\* C3: the days added for a cycle c >= 1 are table[min(c, 5)]: 1, 3, 7, 15, 30
\* for cycles 1..5 and 30 for every later cycle.
C3_IntervalTable ==
    /\ \A c \in 1..(MaxCycle + 1) : DaysToAdd(c) = SpecInterval(c)
    /\ \A p \in Procs :
          (loc[p].op = "completeRevisionItem" /\ loc[p].days # 0) =>
              loc[p].days = SpecInterval(loc[p].snap.revisionCycle + 1)

C3_Witness ==
    \E p \in Procs :
        /\ pc[p] = "done" /\ loc[p].status = 200
        /\ loc[p].snap.revisionCycle + 1 > Len(intervals)
        /\ loc[p].days = 30

\* C4: a completion request for an item that is already completed writes
\* nothing and answers with an error.
C4_RejectAlreadyCompleted ==
    \A p \in Procs :
        (loc[p].op = "completeRevisionItem" /\ loc[p].snap.isCompleted) =>
            /\ ~loc[p].wrote
            /\ loc[p].made = 0
            /\ pc[p] = "done" => loc[p].status = 400

\* C5: the step of completeRevisionItem in which the successor insert fails
\* answers with an error status, and leaves every RevisionItem as it was, the
\* completed one still marked completed with its completed date.
C5_FailureReportedCompletionKept ==
    [][\A p \in Procs :
          (pc[p] = "cmp_create" /\ pc'[p] = "done" /\ loc'[p].made = 0) =>
              /\ loc'[p].status >= 400
              /\ revisionItems' = revisionItems
              /\ revisionItems'[loc[p].id].isCompleted
              /\ revisionItems'[loc[p].id].completedDate # NoDate]_vars

C5_Witness ==
    \E p \in Procs :
        /\ pc[p] = "done" /\ loc[p].op = "completeRevisionItem"
        /\ loc[p].wrote /\ loc[p].made = 0 /\ loc[p].status = 400
        /\ revisionItems[loc[p].id].isCompleted
        /\ revisionItems[loc[p].id].completedDate = loc[p].date

Frame(r) ==
    <<r.itemId, r.itemType, r.userId, r.originalDate, r.nextRevisionDate,
      r.revisionCycle>>

\* C6: no step changes revisionCycle, itemId, itemType, userId, originalDate or
\* nextRevisionDate of an existing RevisionItem or removes one; a completion
\* changes isCompleted and completedDate of its item only, and the later cycle
\* is a row that did not exist before.
C6_CompletionSpawnsNewRow ==
    [][/\ \A i \in DOMAIN revisionItems :
             /\ i \in DOMAIN revisionItems'
             /\ Frame(revisionItems'[i]) = Frame(revisionItems[i])
       /\ \A p \in Procs :
             (pc[p] = "cmp_update" /\ pc'[p] = "cmp_create") =>
                 \A i \in DOMAIN revisionItems :
                     i # loc[p].id => revisionItems'[i] = revisionItems[i]
       /\ \A p \in Procs :
             (pc[p] = "cmp_create" /\ loc'[p].made # 0) =>
                 /\ loc'[p].made = Len(revisionItems) + 1
                 /\ SubSeq(revisionItems', 1, Len(revisionItems)) = revisionItems
                 /\ revisionItems'[loc'[p].made].revisionCycle =
                        revisionItems[loc[p].id].revisionCycle + 1]_vars

C6_Witness ==
    \E i, j \in DOMAIN revisionItems :
        /\ revisionItems[i].isCompleted
        /\ revisionItems[j].pred = i
        /\ revisionItems[j].revisionCycle = revisionItems[i].revisionCycle + 1

HasRevision(id, itemType) ==
    \E j \in DOMAIN revisionItems :
        revisionItems[j].itemId = id /\ revisionItems[j].itemType = itemType

MarkRevisions(id, itemType) ==
    {j \in DOMAIN revisionItems :
        /\ revisionItems[j].itemId = id
        /\ revisionItems[j].itemType = itemType
        /\ revisionItems[j].src = "mark"}

CreateOps == {"createProblem", "createLearningItem"}

UpdateOps == {"updateProblem", "updateLearningItem"}

\* C8: a request that marks an item for revision, at creation or by an update,
\* and answers with success leaves the item with a RevisionItem referencing it.
C8_MarkedItemsHaveRevision ==
    \A p \in Procs :
        (/\ pc[p] = "done"
         /\ loc[p].op \in CreateOps \cup UpdateOps
         /\ loc[p].flag
         /\ loc[p].status \in {200, 201}) =>
            HasRevision(loc[p].id, loc[p].itemType)

\* C9: completedSubtopics <= totalSubtopics in every topic, in every state.
C9_CompletedAtMostTotal ==
    \A t \in DOMAIN topics : topics[t].completedSubtopics <= topics[t].totalSubtopics

\* C10: whenever no subtopic request is in flight, the counters of every topic
\* are the number of its subtopics and the number of its completed subtopics.
C10_CountersMatchAfterReturn ==
    (\A p \in Procs : pc[p] \in {"idle", "done"}) =>
        \A t \in DOMAIN topics :
            /\ topics[t].totalSubtopics = CountSubtopics(t)
            /\ topics[t].completedSubtopics = CountCompleted(t)

SubtopicOps == {"createSubtopic", "completeSubtopic", "uncompleteSubtopic"}

\* C11: with every persistence call succeeding, whenever no subtopic request
\* is in flight the counters of every topic are the number of its subtopics
\* and the number of its completed subtopics, whatever the interleaving was.
C11_CountersMatchWhenQuiescent ==
    (\A p \in Procs : pc[p] \in {"idle", "done"}) =>
        \A t \in DOMAIN topics :
            /\ topics[t].totalSubtopics = CountSubtopics(t)
            /\ topics[t].completedSubtopics = CountCompleted(t)

\* C12: a request during which a persistence call rejected answers with an
\* error status.
C12_NoSwallowedPersistenceError ==
    \A p \in Procs :
        (pc[p] = "done" /\ loc[p].threw) => loc[p].status >= 400

\* C13: a request on an unknown id during which no persistence call rejected
\* answers 404 and has written nothing: completing an unknown RevisionItem,
\* creating a revision item for an unknown user, listing for an unknown user.
C13_UnknownIdsNotFound ==
    \A p \in Procs :
        (pc[p] = "done" /\ ~loc[p].threw) =>
            /\ (loc[p].op = "completeRevisionItem" /\ loc[p].id \notin DOMAIN revisionItems) =>
                  (loc[p].status = 404 /\ ~loc[p].wrote /\ loc[p].made = 0)
            /\ (loc[p].op = "createRevisionItem" /\ loc[p].userId \notin users) =>
                  (loc[p].status = 404 /\ loc[p].made = 0)
            /\ (loc[p].op = "getUserRevisionItems" /\ loc[p].userId \notin users) =>
                  loc[p].status = 404

\* the ids a listing of userId with the given filters is to return
Wanted(userId, date, isCompleted) ==
    {i \in DOMAIN revisionItems :
        /\ revisionItems[i].userId = userId
        /\ date = NoDate \/ revisionItems[i].nextRevisionDate = date
        /\ \/ isCompleted = "none"
           \/ isCompleted = "true" /\ revisionItems[i].isCompleted
           \/ isCompleted = "false" /\ ~revisionItems[i].isCompleted}

\* C14: the step that reads the list takes exactly the rows of the user that
\* pass the two optional filters, each once, as they are stored, in ascending
\* nextRevisionDate; each later step attaches to the next row the Problem or
\* LearningItem whose id is the row's itemId (null when there is none); a
\* listing answered 200 has an attachment for every row.
C14_ListingIsFilteredOrderedEnriched ==
    [][\A p \in Procs :
          /\ (pc[p] = "idle" /\ loc'[p].op = "getUserRevisionItems" /\ ~loc'[p].threw) =>
                LET l == loc'[p] IN
                /\ {l.list[k].id : k \in DOMAIN l.list}
                       = Wanted(l.userId, l.date, l.fdone)
                /\ Len(l.list) = Cardinality(Wanted(l.userId, l.date, l.fdone))
                /\ \A k \in DOMAIN l.list : l.list[k].item = revisionItems[l.list[k].id]
                /\ \A k \in DOMAIN l.list :
                      k > 1 => l.list[k - 1].item.nextRevisionDate
                                  <= l.list[k].item.nextRevisionDate
          /\ (pc[p] = "gri_enrich" /\ loc'[p] # loc[p] /\ ~loc'[p].threw) =>
                LET l == loc'[p]
                    k == Len(l.att)
                    r == l.list[k].item
                IN /\ k = Len(loc[p].att) + 1
                   /\ r.itemType = "problem" =>
                         /\ l.att[k].key = "problem"
                         /\ l.att[k].data = IF r.itemId \in DOMAIN problems
                                            THEN problems[r.itemId] ELSE NoItem
                   /\ r.itemType = "learning" =>
                         /\ l.att[k].key = "learningItem"
                         /\ l.att[k].data = IF r.itemId \in DOMAIN learningItems
                                            THEN learningItems[r.itemId] ELSE NoItem
          /\ (pc'[p] = "done" /\ loc'[p].op = "getUserRevisionItems"
                 /\ loc'[p].status = 200) =>
                Len(loc'[p].att) = Len(loc'[p].list)]_vars

\* a listing answered 200 with two rows whose ids are not in due-date order,
\* a problem attached to one and nothing to attach to another
C14_Witness ==
    \E p \in Procs :
        /\ pc[p] = "done" /\ loc[p].op = "getUserRevisionItems" /\ loc[p].status = 200
        /\ Len(loc[p].list) >= 2
        /\ loc[p].list[1].id > loc[p].list[2].id
        /\ \E k \in DOMAIN loc[p].att : loc[p].att[k].data # NoItem
        /\ \E k \in DOMAIN loc[p].att : loc[p].att[k].data = NoItem
        /\ \E i \in DOMAIN revisionItems : i \notin {loc[p].list[k].id : k \in DOMAIN loc[p].list}

\* the owners of the rows that exist in a table
Owners(table) == {table[i].userId : i \in {j \in DOMAIN table : table[j].userId # 0}}

\* C15: in every state the owner of every Problem, LearningItem, RevisionItem
\* and Roadmap that exists is a user that exists; so when a user is deleted no
\* row it owned is left.
C15_OwnersExist ==
    /\ Owners(problems) \subseteq users
    /\ Owners(learningItems) \subseteq users
    /\ Owners(revisionItems) \subseteq users
    /\ Owners(roadmaps) \subseteq users

\* a user that owned a problem, a revision item and a roadmap has been deleted
C15_Witness ==
    /\ users = {}
    /\ \E i \in DOMAIN problems : problems[i] = NoItem
    /\ \E i \in DOMAIN revisionItems : revisionItems[i] = NoRevision
    /\ \E i \in DOMAIN roadmaps : roadmaps[i] = NoRoadmap

\* at most one User row per email address
UniqueEmails ==
    \A i \in users, j \in users : userRows[i].email = userRows[j].email => i = j

\* C16: under any interleaving of registrations and OAuth logins at most one
\* User exists per email address, and a registration whose email is in use
\* when it is answered, by a user it did not create, is answered 409
\* (conflict) and has created no user
C16_EmailsUniqueConflictRejected ==
    [][ /\ UniqueEmails'
        /\ \A p \in Procs :
              (/\ pc[p] # "done" /\ pc'[p] = "done"
               /\ loc'[p].op = "register" /\ ~loc'[p].threw
               /\ \E i \in users' : /\ userRows'[i].email = loc'[p].email
                                     /\ i # loc'[p].made)
              => loc'[p].status = 409 /\ loc'[p].made = 0 ]_vars

\* the registered local accounts a login with (email, password) matches
Matching(email, password) ==
    {i \in users : /\ userRows[i].email = email
                   /\ userRows[i].password = Hash(password)}

\* C17: a login with the email and password of a registration succeeds and
\* returns the registered user; a token issued at registration verifies, until
\* it expires, to the user it was issued to; a login with an unknown email or
\* a wrong password is rejected with 401 and leaves every lastLoginAt as it was
C17_RegisterLoginVerify ==
    [][ \A p \in Procs :
          (pc[p] # "done" /\ pc'[p] = "done" /\ ~loc'[p].threw) =>
            LET l == loc'[p] IN
            /\ l.op = "login" =>
                  IF Matching(l.email, l.password) # {}
                  THEN /\ l.status = 200
                       /\ l.id \in Matching(l.email, l.password)
                       /\ l.token.id = l.id
                  ELSE /\ l.status \in {400, 401}
                       /\ l.status = 400 <=>
                             \E i \in users : /\ userRows[i].email = l.email
                                               /\ userRows[i].password = NoHash
                       /\ ~l.wrote
                       /\ userRows' = userRows
            /\ (l.op = "verify" /\ [by |-> "register", jwt |-> l.token] \in tokens
                 /\ now < l.token.exp) =>
                  /\ l.status = 200
                  /\ l.id = l.token.id
                  /\ l.user.email = l.token.email
                  /\ l.user.password # NoHash ]_vars

\* a registration, then a rejected login (wrong password), an accepted login
\* and a verification of the registration token have all been answered
C17_Witness ==
    /\ \E p \in Procs : /\ pc[p] = "done" /\ loc[p].op = "verify"
                         /\ loc[p].status = 200
                         /\ [by |-> "register", jwt |-> loc[p].token] \in tokens
    /\ \E i \in users : /\ userRows[i].authProvider = "local"
                         /\ userRows[i].lastLoginAt # NoDate
    /\ \E t \in tokens : t.by = "login"

\* the calendar days on which the user has a solved problem
SolvedDays ==
    {ISODate(problems[i].date) : i \in {j \in DOMAIN problems : problems[j].outcome = "solved"}}

\* the consecutive days with a solved problem, walking backward from day
RECURSIVE ConsecutiveDays(_)
ConsecutiveDays(day) ==
    IF day \in SolvedDays THEN 1 + ConsecutiveDays(day - 1) ELSE 0

\* the days of the sorted solved problems a streak request walks over
WalkedDays(l) == [i \in DOMAIN l.list |-> ISODate(l.list[i].date)]

\* C18: the streak returned is the number of consecutive calendar days,
\* walking backward from today, that have a solved problem: 0 when no solved
\* problem is dated today, 3 for problems solved on today, today-1, today-2
C18_StreakIsConsecutiveDays ==
    \A p \in Procs :
        (pc[p] = "done" /\ loc[p].op = "streak") =>
            loc[p].currentStreak = ConsecutiveDays(ISODate(now))

RoundHalfUp(a, b) == (2 * a + b) \div (2 * b)

\* C20: the success rate is 0 when total = 0 and otherwise
\* round(100 * solved / total) with half rounded up; the overview and the
\* analytics success rates agree with calculateSuccessRate
C20_SuccessRateRoundsHalfUp ==
    \A p \in Procs :
        (pc[p] = "done" /\ loc[p].op = "successRate") =>
            /\ loc[p].successRate =
                  IF loc[p].total = 0 THEN 0
                  ELSE RoundHalfUp(100 * loc[p].solved, loc[p].total)
            /\ loc[p].overview = loc[p].successRate
            /\ loc[p].analytics = loc[p].successRate

\* C21: the topic analysis has one entry per distinct topic with its total,
\* its solved count and successRate = round(100 * solved / total), in
\* descending order of success rate; strongestTopics is its first 5 entries
\* and weakestTopics its last 5 in reverse
C21_TopicAnalysis ==
    \A p \in Procs :
        (pc[p] = "done" /\ loc[p].op = "topicAnalysis") =>
            LET a == loc[p].topicAnalysis
                n == Len(a)
            IN  /\ {a[k].topic : k \in 1..n} = TopicsOf(problems)
                /\ n = Cardinality(TopicsOf(problems))
                /\ \A k \in 1..n :
                      /\ a[k].totalProblems = TopicTotal(problems, a[k].topic)
                      /\ a[k].solvedProblems = TopicSolved(problems, a[k].topic)
                      /\ a[k].successRate =
                            RoundHalfUp(100 * a[k].solvedProblems, a[k].totalProblems)
                /\ \A k \in 1..(n - 1) : a[k].successRate >= a[k + 1].successRate
                /\ loc[p].strongestTopics = SubSeq(a, 1, Min(5, n))
                /\ Len(loc[p].weakestTopics) = Min(5, n)
                /\ \A k \in 1..Min(5, n) : loc[p].weakestTopics[k] = a[n + 1 - k]

\* an analytics request that passed validation has been answered, and not
\* by the catch block
Answered(p) ==
    /\ pc[p] = "done"
    /\ loc[p].op = "analytics"
    /\ loc[p].fdone # "validation"
    /\ ~loc[p].threw

\* the user has no problems, learning items or roadmaps
ZeroData(userId) ==
    /\ \A i \in DOMAIN problems : problems[i].userId # userId
    /\ \A i \in DOMAIN learningItems : learningItems[i].userId # userId
    /\ \A i \in DOMAIN roadmaps : roadmaps[i].userId # userId

\* the figures of a report computed from the user's rows are all zero and
\* its lists are empty
ZeroReport(r) ==
    /\ r.overview.totalProblems = 0
    /\ r.overview.solvedProblems = 0
    /\ r.overview.successRate = 0
    /\ r.overview.currentStreak = 0
    /\ r.overview.weeklySolved = 0
    /\ r.overview.totalLearningHours = 0
    /\ r.overview.averageTimePerProblem = 0
    /\ r.overview.uniqueTopics = 0
    /\ r.completedRoadmaps = 0 /\ r.totalRoadmaps = 0 /\ r.inProgressRoadmaps = 0
    /\ \A k \in DOMAIN r.dailyActivity :
          r.dailyActivity[k].problemsSolved = 0 /\ r.dailyActivity[k].learningHours = 0
    /\ \A k \in DOMAIN r.weeklyProgress :
          r.weeklyProgress[k].problemsSolved = 0 /\ r.weeklyProgress[k].successRate = 0
    /\ r.topicAnalysis = <<>> /\ r.strongestTopics = <<>> /\ r.weakestTopics = <<>>
    /\ r.topicDistribution = <<>>
    /\ \A b \in {r.difficultyAnalysis.easyProblems, r.difficultyAnalysis.mediumProblems,
                 r.difficultyAnalysis.hardProblems} :
          b.solved = 0 /\ b.total = 0 /\ b.successRate = 0
    /\ \A d \in DOMAIN r.averageTimeByDifficulty : r.averageTimeByDifficulty[d] = 0

\* C22 (as stated): analytics for a user with zero problems, learning items
\* and roadmaps answers 200 with a report in which every average, percentage
\* and hour total is 0, the placeholder percentages included
C22_ZeroDataAllZero ==
    \A p \in Procs :
        (Answered(p) /\ ZeroData(loc[p].userId)) =>
            /\ loc[p].status = 200
            /\ ZeroReport(loc[p].report)
            /\ \A k \in DOMAIN loc[p].report.bestPerformingHours :
                  loc[p].report.bestPerformingHours[k].successRate = 0
            /\ loc[p].report.predictions.successRate = 0

\* C22 (amended): analytics for a user with zero problems, learning items and
\* roadmaps answers 200 with a report in which every figure computed from the
\* user's rows is 0 and every list is empty; the placeholder figures are the
\* constants every report carries (predicted success rate 5, 10 problems)
C22_ZeroDataComputedZero ==
    \A p \in Procs :
        (Answered(p) /\ ZeroData(loc[p].userId)) =>
            /\ loc[p].status = 200
            /\ ZeroReport(loc[p].report)
            /\ loc[p].report.bestPerformingHours = BestPerformingHours
            /\ loc[p].report.predictions = [problemsSolved |-> 10, successRate |-> 5]

C22_Witness ==
    \E p \in Procs :
        /\ Answered(p) /\ ZeroData(loc[p].userId)
        /\ loc[p].status = 200
        /\ \E i \in DOMAIN problems : problems[i].userId # 0
        /\ learningItems # <<>>

\* C23: without an explicit date range, a request whose timeframe is absent
\* or is not week, month or quarter is answered without an error from the
\* problems and learning items of the user dated within the last 30 days
C23_DefaultMonthWindow ==
    \A p \in Procs :
        (/\ pc[p] = "done" /\ loc[p].op = "analytics" /\ ~loc[p].threw
         /\ loc[p].userId >= 1
         /\ loc[p].range = NoRange
         /\ loc[p].timeframe \notin Timeframes) =>
            /\ loc[p].status = 200
            /\ loc[p].rows.problems =
                  SelectSeq(problems, LAMBDA r : /\ r.userId = loc[p].userId
                                                 /\ r.date >= AddDays(now, -30))
            /\ loc[p].rows.learningItems =
                  SelectSeq(learningItems, LAMBDA r : /\ r.userId = loc[p].userId
                                                      /\ r.date >= AddDays(now, -30))

\* the Sunday-to-Saturday week a day lies in, counted from the week of day 0
\* (day 0 is a Thursday, day 3 the first Sunday)
WeekOf(day) == (day + 4) \div 7

\* the solved problems the request read that are dated in the week k of the
\* last 4 weeks (week 4 is the week of today)
SolvedInWeek(p, k) ==
    Cardinality({i \in DOMAIN loc[p].rows.problems :
                    /\ loc[p].rows.problems[i].outcome = "solved"
                    /\ WeekOf(ISODate(loc[p].rows.problems[i].date))
                          = WeekOf(ISODate(now)) - (4 - k)})

WeeksListed(p) ==
    LET w == loc[p].report.weeklyProgress
    IN  /\ Len(w) = 4
        /\ \A k \in 1..4 : w[k].week = k /\ w[k].problemsSolved = SolvedInWeek(p, k)

\* C24 (as stated): weekly progress has one entry for each of the last 4
\* Sunday-to-Saturday weeks, oldest first, and each week's success rate is 100
C24_WeeklyRateAlways100 ==
    \A p \in Procs :
        (Answered(p) /\ loc[p].status = 200) =>
            /\ WeeksListed(p)
            /\ \A k \in 1..4 : loc[p].report.weeklyProgress[k].successRate = 100

\* C24 (amended): weekly progress has one entry for each of the last 4
\* Sunday-to-Saturday weeks, oldest first, and each week's success rate is 100
\* when the week has a solved problem, whatever its non-solved problems, and
\* 0 when it has none
C24_WeeklyRate100OrZero ==
    \A p \in Procs :
        (Answered(p) /\ loc[p].status = 200) =>
            /\ WeeksListed(p)
            /\ \A k \in 1..4 :
                  loc[p].report.weeklyProgress[k].successRate =
                      IF SolvedInWeek(p, k) > 0 THEN 100 ELSE 0

C24_Witness ==
    \E p \in Procs :
        /\ Answered(p) /\ loc[p].status = 200
        /\ loc[p].report.weeklyProgress[4].successRate = 100
        /\ loc[p].report.weeklyProgress[3].successRate = 0
        /\ \E i \in DOMAIN loc[p].rows.problems :
              /\ loc[p].rows.problems[i].outcome # "solved"
              /\ WeekOf(ISODate(loc[p].rows.problems[i].date)) = WeekOf(ISODate(now))

\* request p takes a step of an analytics request
AnalyticsStep(p) ==
    /\ pc'[p] # pc[p] \/ loc'[p] # loc[p]
    /\ \/ pc[p] \in {"an_problems", "an_learning", "an_revisions", "an_roadmaps"}
       \/ pc[p] = "idle" /\ loc'[p].op = "analytics"

\* C25: no step of an analytics request writes: the users, problems, learning
\* items, revision items, roadmaps, topics and subtopics are unchanged by it,
\* and so are the tokens and the position and locals of every other request
C25_AnalyticsWritesNothing ==
    [][\A p \in Procs :
          AnalyticsStep(p) =>
              /\ store' = store
              /\ tokens' = tokens
              /\ \A q \in Procs \ {p} : pc'[q] = pc[q] /\ loc'[q] = loc[q]]_vars

C25_Witness ==
    \E p \in Procs, q \in Procs :
        /\ pc[p] = "done" /\ loc[p].op = "analytics" /\ loc[p].status = 200
        /\ pc[q] = "done" /\ loc[q].op = "updateProblem" /\ loc[q].wrote
        /\ loc[p].rows.problems # FindAllByDate(problems, loc[p].userId, loc[p].filter)

\* C26: in every state each revision chain (itemId, itemType, userId) has at
\* most one RevisionItem that is not completed
C26_OnePendingPerChain ==
    \A i \in DOMAIN revisionItems, j \in DOMAIN revisionItems :
        (/\ i < j
         /\ revisionItems[i].userId # 0
         /\ SameChain(revisionItems[i], revisionItems[j])
         /\ ~revisionItems[i].isCompleted) => revisionItems[j].isCompleted

\* the item a RevisionItem names exists
ItemExists(r) ==
    IF r.itemType = "problem" THEN Exists(problems, r.itemId)
                              ELSE Exists(learningItems, r.itemId)

\* C28: in every state every RevisionItem names an existing Problem or
\* LearningItem, and a listing never has a null item attached
C28_RevisionItemsReferToItems ==
    /\ \A i \in DOMAIN revisionItems :
          revisionItems[i].userId # 0 => ItemExists(revisionItems[i])
    /\ \A p \in Procs :
          (pc[p] = "done" /\ loc[p].op = "getUserRevisionItems" /\ loc[p].status = 200) =>
              \A k \in DOMAIN loc[p].att : loc[p].att[k].data # NoItem

\* C27: a request authenticated as one user does not complete a revision
\* item, list the revision items or delete a problem of another user, and a
\* listed RevisionItem has no other user's item attached
C27_OnlyOwnerActs ==
    \A p \in Procs :
        (pc[p] = "done" /\ loc[p].auth # 0 /\ loc[p].status \in {200, 201}) =>
            /\ loc[p].op = "completeRevisionItem" => loc[p].snap.userId = loc[p].auth
            /\ loc[p].op = "getUserRevisionItems" =>
                  /\ loc[p].userId = loc[p].auth
                  /\ \A k \in DOMAIN loc[p].att :
                        loc[p].att[k].data.userId \in {0, loc[p].auth}
            /\ loc[p].op = "deleteProblem" => loc[p].owner = loc[p].auth

\* C30: a request to a route with an id path parameter that carries a valid
\* id is not rejected by the validator of the route
C30_ValidIdsPassValidation ==
    \A p \in Procs :
        (/\ pc[p] = "done"
         /\ loc[p].route \in {UserByIdRoute, RoadmapByIdRoute, CreateTopicRoute,
                              CreateSubtopicRoute}
         /\ loc[p].id >= 1) => loc[p].fdone # "validation"

\* the table a create request inserts its item into
ItemTable(p) == IF loc[p].op = "createProblem" THEN problems ELSE learningItems

\* C29: a create request for a problem or a learning item that is answered
\* with an error has left no item row behind, and one answered 201 with the
\* revision flag set has left both the item and its RevisionItem
C29_CreateAllOrNothing ==
    \A p \in Procs :
        (pc[p] = "done" /\ loc[p].op \in {"createProblem", "createLearningItem"}) =>
            /\ loc[p].status >= 400 => ~Exists(ItemTable(p), loc[p].id)
            /\ (loc[p].status = 201 /\ loc[p].flag) =>
                  /\ Exists(ItemTable(p), loc[p].id)
                  /\ Exists(revisionItems, loc[p].made)
                  /\ revisionItems[loc[p].made].itemId = loc[p].id

====
